---- MODULE Spec2Model ----
(***************************************************************************)
(* Mandelbrot set viewer (necto/miranda-test): the escape-time evaluator,  *)
(* the colour mapper, the pixel <-> complex-plane coordinate mapper and    *)
(* the viewport algebra of mandelbrot.ts.                                  *)
(*                                                                         *)
(* The program computes with JavaScript numbers, i.e. IEEE-754 binary64.   *)
(* The rounding of every single operation is observable in the results     *)
(* (Math.floor(255 * (1 - 4/5)) is 50, not 51), so numbers are modelled as *)
(* binary floating-point values with a 53-bit significand and every        *)
(* arithmetic operator rounds to nearest, ties to even, as the hardware    *)
(* does.  A number is a record [s, m, e] standing for s * m * 2^e with     *)
(* s in {1,-1}, m an odd natural below 2^53 (or zero) and e an integer;    *)
(* this form is unique, so equality of records is equality of numbers.     *)
(* The significand is a little-endian sequence of 14-bit limbs, because    *)
(* the model checker's integers are 32 bits wide.  Exponent overflow,      *)
(* subnormals, NaN and the sign of zero are outside the model: the inputs  *)
(* are bounded well away from them.                                        *)
(***************************************************************************)
EXTENDS Integers, Naturals, Sequences, FiniteSets, TLC

(***************************************************************************)
(* Natural numbers of arbitrary size: little-endian limbs, no leading      *)
(* (most significant) zero limb, zero is the empty sequence.               *)
(***************************************************************************)
LimbBits == 14
Base == 2 ^ LimbBits
MantBits == 53

Max2(a, b) == IF a >= b THEN a ELSE b
Min2(a, b) == IF a <= b THEN a ELSE b
Abs(n) == IF n < 0 THEN -n ELSE n

RECURSIVE BNTrim(_)
BNTrim(a) ==
    IF a = <<>> THEN a
    ELSE IF a[Len(a)] = 0 THEN BNTrim(SubSeq(a, 1, Len(a) - 1))
    ELSE a

RECURSIVE BNFromNat(_)
BNFromNat(n) == IF n = 0 THEN <<>> ELSE <<n % Base>> \o BNFromNat(n \div Base)

RECURSIVE BNToNat(_)
BNToNat(a) == IF a = <<>> THEN 0 ELSE a[1] + Base * BNToNat(Tail(a))

BNLimb(a, i) == IF i <= Len(a) THEN a[i] ELSE 0

RECURSIVE BNCmpAt(_, _, _)
BNCmpAt(a, b, i) ==
    IF i = 0 THEN 0
    ELSE IF a[i] < b[i] THEN -1
    ELSE IF a[i] > b[i] THEN 1
    ELSE BNCmpAt(a, b, i - 1)

BNCmp(a, b) ==
    IF Len(a) < Len(b) THEN -1
    ELSE IF Len(a) > Len(b) THEN 1
    ELSE BNCmpAt(a, b, Len(a))

RECURSIVE BNAddAt(_, _, _, _)
BNAddAt(a, b, i, c) ==
    IF i > Len(a) /\ i > Len(b)
    THEN IF c = 0 THEN <<>> ELSE <<c>>
    ELSE LET s == BNLimb(a, i) + BNLimb(b, i) + c
         IN  <<s % Base>> \o BNAddAt(a, b, i + 1, s \div Base)

BNAdd(a, b) == BNAddAt(a, b, 1, 0)

RECURSIVE BNSubAt(_, _, _, _)
BNSubAt(a, b, i, c) ==
    IF i > Len(a) THEN <<>>
    ELSE LET d == a[i] - BNLimb(b, i) - c
         IN  IF d < 0 THEN <<d + Base>> \o BNSubAt(a, b, i + 1, 1)
             ELSE <<d>> \o BNSubAt(a, b, i + 1, 0)

\* a - b for a >= b
BNSub(a, b) == BNTrim(BNSubAt(a, b, 1, 0))

RECURSIVE BNMulSmallAt(_, _, _, _)
BNMulSmallAt(a, k, i, c) ==
    IF i > Len(a)
    THEN IF c = 0 THEN <<>> ELSE <<c>>
    ELSE LET p == a[i] * k + c
         IN  <<p % Base>> \o BNMulSmallAt(a, k, i + 1, p \div Base)

\* a * k for 0 <= k <= Base
BNMulSmall(a, k) == IF k = 0 THEN <<>> ELSE BNMulSmallAt(a, k, 1, 0)

BNShiftLimbs(a, q) == IF a = <<>> THEN a ELSE [i \in 1..q |-> 0] \o a

RECURSIVE BNMul(_, _)
BNMul(a, b) ==
    IF b = <<>> \/ a = <<>> THEN <<>>
    ELSE BNAdd(BNMulSmall(a, b[1]), BNShiftLimbs(BNMul(a, Tail(b)), 1))

\* a * 2^k
BNShl(a, k) == BNShiftLimbs(BNMulSmall(a, 2 ^ (k % LimbBits)), k \div LimbBits)

\* floor(a / 2^k)
BNShr(a, k) ==
    LET q == k \div LimbBits
        r == k % LimbBits
        d == IF q >= Len(a) THEN <<>> ELSE SubSeq(a, q + 1, Len(a))
    IN  IF r = 0 THEN d
        ELSE BNTrim([i \in 1..Len(d) |->
                 (d[i] \div 2 ^ r) + (BNLimb(d, i + 1) % 2 ^ r) * 2 ^ (LimbBits - r)])

\* a mod 2^k
BNLowBits(a, k) ==
    LET q == k \div LimbBits
        r == k % LimbBits
    IN  IF q >= Len(a) THEN a
        ELSE BNTrim(SubSeq(a, 1, q) \o <<a[q + 1] % 2 ^ r>>)

RECURSIVE BitLenNat(_)
BitLenNat(n) == IF n = 0 THEN 0 ELSE 1 + BitLenNat(n \div 2)

BNBitLen(a) == IF a = <<>> THEN 0 ELSE (Len(a) - 1) * LimbBits + BitLenNat(a[Len(a)])

RECURSIVE TrailingZerosNat(_)
TrailingZerosNat(n) == IF n % 2 = 1 THEN 0 ELSE 1 + TrailingZerosNat(n \div 2)

RECURSIVE BNTrailingZerosAt(_, _)
BNTrailingZerosAt(a, i) ==
    IF a[i] = 0 THEN LimbBits + BNTrailingZerosAt(a, i + 1)
    ELSE TrailingZerosNat(a[i])

\* number of trailing zero bits of a > 0
BNTrailingZeros(a) == BNTrailingZerosAt(a, 1)

BNIsOdd(a) == a # <<>> /\ a[1] % 2 = 1

(***************************************************************************)
(* JavaScript numbers.                                                     *)
(***************************************************************************)
FZero == [s |-> 1, m |-> <<>>, e |-> 0]

\* M mod 2^k is above half of 2^k, or is half of it and q is odd (k > 0)
RoundsUp(M, k, q) ==
    LET c == BNCmp(BNLowBits(M, k), BNShl(<<1>>, k - 1))
    IN  c = 1 \/ (c = 0 /\ BNIsOdd(q))

\* s * q2 * 2^e with the significand made odd (q2 > 0)
FOdd(s, q2, e, tz) == [s |-> s, m |-> BNShr(q2, tz), e |-> e + tz]

\* s * M * 2^e with the k lowest bits of M rounded away, q being M without
\* them
FRoundTo(s, M, e, k, q) ==
    IF k > 0 /\ RoundsUp(M, k, q)
    THEN FOdd(s, BNAdd(q, <<1>>), e + k, BNTrailingZeros(BNAdd(q, <<1>>)))
    ELSE FOdd(s, q, e + k, BNTrailingZeros(q))

FRoundBits(s, M, e, k) == FRoundTo(s, M, e, k, BNShr(M, k))

\* The number nearest to s * M * 2^e (ties to even), M any natural.
FRound(s, M, e) ==
    IF M = <<>> THEN FZero
    ELSE FRoundBits(s, M, e, Max2(0, BNBitLen(M) - MantBits))

\* The number n * 2^e for an integer n (exact: |n| < 2^31).
Num(n, e) == FRound(IF n < 0 THEN -1 ELSE 1, BNFromNat(Abs(n)), e)

FromInt(n) == Num(n, 0)

FNeg(a) == IF a.m = <<>> THEN a ELSE [a EXCEPT !.s = -a.s]

FAbs(a) == [a EXCEPT !.s = 1]

\* -1, 0, 1 as |a| is below, equal to, above |b|
FCmpAbs(a, b) ==
    IF a.m = <<>> \/ b.m = <<>>
    THEN (IF a.m = <<>> THEN 0 ELSE 1) - (IF b.m = <<>> THEN 0 ELSE 1)
    ELSE LET ta == BNBitLen(a.m) + a.e
             tb == BNBitLen(b.m) + b.e
             lo == Min2(a.e, b.e)
         IN  IF ta < tb THEN -1
             ELSE IF ta > tb THEN 1
             ELSE BNCmp(BNShl(a.m, a.e - lo), BNShl(b.m, b.e - lo))

\* -1, 0, 1 as a < b, a = b, a > b
FCmp(a, b) ==
    LET sa == IF a.m = <<>> THEN 0 ELSE a.s
        sb == IF b.m = <<>> THEN 0 ELSE b.s
    IN  IF sa # sb THEN (IF sa < sb THEN -1 ELSE 1)
        ELSE IF sa = 0 THEN 0
        ELSE sa * FCmpAbs(a, b)

FLe(a, b) == FCmp(a, b) <= 0
FLt(a, b) == FCmp(a, b) < 0

\* s * M * 2^e itself, M any natural: a value of the same form whose
\* significand may be longer than MantBits (an exact intermediate result)
Exact(s, M, e) ==
    IF M = <<>> THEN FZero
    ELSE LET tz == BNTrailingZeros(M)
         IN  [s |-> s, m |-> BNShr(M, tz), e |-> e + tz]

\* a + b, a - b and a * b as real numbers, not rounded
XAdd(a, b) ==
    IF a.m = <<>> THEN b
    ELSE IF b.m = <<>> THEN a
    ELSE LET lo == Min2(a.e, b.e)
             A  == BNShl(a.m, a.e - lo)
             B  == BNShl(b.m, b.e - lo)
             c  == BNCmp(A, B)
         IN  IF a.s = b.s THEN Exact(a.s, BNAdd(A, B), lo)
             ELSE IF c = 0 THEN FZero
             ELSE IF c = 1 THEN Exact(a.s, BNSub(A, B), lo)
             ELSE Exact(b.s, BNSub(B, A), lo)

XSub(a, b) == XAdd(a, FNeg(b))

XMul(a, b) == Exact(a.s * b.s, BNMul(a.m, b.m), a.e + b.e)

\* the number nearest to the real x
Rnd(x) == FRound(x.s, x.m, x.e)

\* a + b, a - b, a * b of JavaScript: the exact result, rounded
FAdd(a, b) == Rnd(XAdd(a, b))

FSub(a, b) == Rnd(XSub(a, b))

FMul(a, b) == Rnd(XMul(a, b))

\* n steps of binary long division of R by D (R < 2 * D): <<remainder,
\* quotient bits so far>>.  (Len(R) >= 0 only makes the remainder be computed
\* step by step.)
RECURSIVE DivSteps(_, _, _, _)
DivSteps(R, D, n, q) ==
    IF n = 0 \/ Len(R) < 0 \/ q < 0 THEN <<R, q>>
    ELSE IF BNCmp(R, D) >= 0
         THEN DivSteps(BNMulSmall(BNSub(R, D), 2), D, n - 1, 2 * q + 1)
         ELSE DivSteps(BNMulSmall(R, 2), D, n - 1, 2 * q)

\* floor(R / D * 2^(4 * LimbBits - 2)) doubled, plus 1 if a remainder is left
\* (the sticky bit), for R < 2 * D
DivQuot(R, D) ==
    LET Q4(c1, c2, c3, c4) ==
            BNTrim(<<2 * c4[2] + (IF c4[1] = <<>> THEN 0 ELSE 1),
                     c3[2], c2[2], c1[2]>>)
        Q3(c1, c2, c3) == Q4(c1, c2, c3, DivSteps(c3[1], D, LimbBits - 1, 0))
        Q2(c1, c2) == Q3(c1, c2, DivSteps(c2[1], D, LimbBits, 0))
        Q1(c1) == Q2(c1, DivSteps(c1[1], D, LimbBits, 0))
    IN  Q1(DivSteps(R, D, LimbBits, 0))

\* a / b, rounded (b # 0)
FDiv(a, b) ==
    IF a.m = <<>> THEN FZero
    ELSE LET la == BNBitLen(a.m)
             lb == BNBitLen(b.m)
             sa == Max2(0, lb - la)
             sb == Max2(0, la - lb)
         IN  FRound(a.s * b.s, DivQuot(BNShl(a.m, sa), BNShl(b.m, sb)),
                    a.e - b.e + sb - sa - (4 * LimbBits - 1))

\* Math.floor, for results that fit an integer of the model
Floor(a) ==
    IF a.m = <<>> THEN 0
    ELSE IF a.e >= 0 THEN a.s * BNToNat(BNShl(a.m, a.e))
    ELSE LET q == BNToNat(BNShr(a.m, -a.e))
         IN  IF a.s = 1 THEN q ELSE -(q + 1)

\* Math.round: the nearest integer, a tie going up (towards +Infinity)
Round(a) ==
    IF a.m = <<>> THEN 0
    ELSE IF a.e >= 0 THEN a.s * BNToNat(BNShl(a.m, a.e))
    ELSE LET q == BNToNat(BNShr(a.m, -a.e))
             c == BNCmp(BNLowBits(a.m, -a.e), BNShl(<<1>>, -a.e - 1))
         IN  IF a.s = 1 THEN (IF c >= 0 THEN q + 1 ELSE q)
             ELSE (IF c > 0 THEN -(q + 1) ELSE -q)

(***************************************************************************)
(* Math.PI and Math.sin.  Math.sin is the engine's: V8 evaluates it with   *)
(* fdlibm's sin (argument reduction by __ieee754_rem_pio2, then the        *)
(* polynomials __kernel_sin and __kernel_cos), every step a rounded        *)
(* operation on numbers.  Modelled for |x| <= 2^19 * pi/2, which is where  *)
(* fdlibm reduces with its three-part pi/2; no -0, NaN or Infinity.        *)
(***************************************************************************)
PI == [s |-> 1, m |-> <<1443, 10786, 1014, 201>>, e |-> -48]

\* the (normal) number whose 64 bits are the 16-bit words w3 w2 w1 w0
Double(w3, w2, w1, w0) ==
    FRound(IF w3 >= 32768 THEN -1 ELSE 1,
           BNAdd(BNAdd(BNShl(BNFromNat(16 + (w3 % 16)), 48), BNShl(BNFromNat(w2), 32)),
                 BNAdd(BNShl(BNFromNat(w1), 16), BNFromNat(w0))),
           ((w3 % 32768) \div 16) - 1075)

\* GET_HIGH_WORD(ix, x); ix &= 0x7fffffff: the upper 32 bits of x without
\* the sign
HighWord(x) ==
    IF x.m = <<>> THEN 0
    ELSE (x.e + BNBitLen(x.m) + 1021) * 1048576
         + BNToNat(BNShr(BNShl(x.m, MantBits - BNBitLen(x.m)), 32))

\* The numbers the routines work on, by their names in fdlibm: the
\* coefficients S1..S6 of __kernel_sin and C1..C6 of __kernel_cos, invpio2
\* and the parts of pi/2 of __ieee754_rem_pio2, half and one, and the
\* arguments and local variables (not yet assigned)
Registers ==
    [S1      |-> Double(\hBFC5, \h5555, \h5555, \h5549),
     S2      |-> Double(\h3F81, \h1111, \h1110, \hF8A6),
     S3      |-> Double(\hBF2A, \h01A0, \h19C1, \h61D5),
     S4      |-> Double(\h3EC7, \h1DE3, \h57B1, \hFE7D),
     S5      |-> Double(\hBE5A, \hE5E6, \h8A2B, \h9CEB),
     S6      |-> Double(\h3DE5, \hD93A, \h5ACF, \hD57C),
     C1      |-> Double(\h3FA5, \h5555, \h5555, \h554C),
     C2      |-> Double(\hBF56, \hC16C, \h16C1, \h5177),
     C3      |-> Double(\h3EFA, \h01A0, \h19CB, \h1590),
     C4      |-> Double(\hBE92, \h7E4F, \h809C, \h52AD),
     C5      |-> Double(\h3E21, \hEE9E, \hBDB4, \hB1C4),
     C6      |-> Double(\hBDA8, \hFAE9, \hBE88, \h38D4),
     invpio2 |-> Double(\h3FE4, \h5F30, \h6DC9, \hC883),
     pio2_1  |-> Double(\h3FF9, \h21FB, \h5440, \h0000),
     pio2_1t |-> Double(\h3DD0, \hB461, \h1A62, \h6331),
     pio2_2  |-> Double(\h3DD0, \hB461, \h1A60, \h0000),
     pio2_2t |-> Double(\h3BA3, \h198A, \h2E03, \h7073),
     pio2_3  |-> Double(\h3BA3, \h198A, \h2E00, \h0000),
     pio2_3t |-> Double(\h397B, \h839A, \h2520, \h49C1),
     half |-> Num(1, -1), one |-> Num(1, 0), qx |-> FZero,
     x |-> FZero, y |-> FZero, z |-> FZero, v |-> FZero, r |-> FZero, u |-> FZero,
     hz |-> FZero, a |-> FZero, t |-> FZero, fn |-> FZero, w |-> FZero,
     y0 |-> FZero, y1 |-> FZero, result |-> FZero]

\* the upper words of n * pi/2, n = 1 .. 32
npio2_hw ==
    <<\h3FF921FB, \h400921FB, \h4012D97C, \h401921FB,
      \h401F6A7A, \h4022D97C, \h4025FDBB, \h402921FB,
      \h402C463A, \h402F6A7A, \h4031475C, \h4032D97C,
      \h40346B9C, \h4035FDBB, \h40378FDB, \h403921FB,
      \h403AB41B, \h403C463A, \h403DD85A, \h403F6A7A,
      \h40407E4C, \h4041475C, \h4042106C, \h4042D97C,
      \h4043A28C, \h40446B9C, \h404534AC, \h4045FDBB,
      \h4046C6CB, \h40478FDB, \h404858EB, \h404921FB>>


\* one rounded operation, or a plain assignment of a
Operate(op, a, b) ==
    IF op = "+" THEN FAdd(a, b)
    ELSE IF op = "-" THEN FSub(a, b)
    ELSE IF op = "*" THEN FMul(a, b)
    ELSE a

\* The registers after the statements code[i], code[i + 1], ...: a statement
\* <<d, op, a, b>> assigns d = a op b, one rounded operation, in the order in
\* which the C expressions evaluate.
RECURSIVE Run(_, _, _)
Run(code, i, env) ==
    IF i > Len(code) THEN env
    ELSE CHOOSE after \in {Run(code, i + 1, next) :
             next \in {[env EXCEPT ![code[i][1]] =
                           Operate(code[i][2], env[code[i][3]], env[code[i][4]])]}} : TRUE

\* sin(x + y) for |x| <= pi/4, y the tail of x (iy = 0: y is 0):
\*   z = x*x; v = z*x; r = S2 + z*(S3 + z*(S4 + z*(S5 + z*S6)));
\*   iy == 0: x + v*(S1 + z*r);  else: x - ((z*(half*y - v*r) - y) - v*S1)
KernelSin(x, y, iy) ==
    IF HighWord(x) < \h3E400000 THEN x
    ELSE Run(<<<<"z", "*", "x", "x">>, <<"v", "*", "z", "x">>,
               <<"r", "*", "z", "S6">>, <<"r", "+", "S5", "r">>,
               <<"r", "*", "z", "r">>, <<"r", "+", "S4", "r">>,
               <<"r", "*", "z", "r">>, <<"r", "+", "S3", "r">>,
               <<"r", "*", "z", "r">>, <<"r", "+", "S2", "r">>>>
             \o (IF iy = 0
                 THEN <<<<"a", "*", "z", "r">>, <<"a", "+", "S1", "a">>,
                        <<"a", "*", "v", "a">>, <<"result", "+", "x", "a">>>>
                 ELSE <<<<"a", "*", "half", "y">>, <<"u", "*", "v", "r">>,
                        <<"a", "-", "a", "u">>, <<"a", "*", "z", "a">>,
                        <<"a", "-", "a", "y">>, <<"u", "*", "v", "S1">>,
                        <<"a", "-", "a", "u">>, <<"result", "-", "x", "a">>>>),
             1, [Registers EXCEPT !.x = x, !.y = y]).result

\* cos(x + y) for |x| <= pi/4, y the tail of x:
\*   z = x*x; r = z*(C1 + z*(C2 + z*(C3 + z*(C4 + z*(C5 + z*C6)))));
\*   ix < 0x3FD33333: one - (0.5*z - (z*r - x*y));
\*   else: qx = 0.28125 if ix > 0x3fe90000, else the number whose upper word
\*   is ix - 0x00200000; hz = 0.5*z - qx; a = one - qx;
\*   a - (hz - (z*r - x*y))
KernelCos(x, y) ==
    IF HighWord(x) < \h3E400000 THEN Num(1, 0)
    ELSE Run(<<<<"z", "*", "x", "x">>,
               <<"r", "*", "z", "C6">>, <<"r", "+", "C5", "r">>,
               <<"r", "*", "z", "r">>, <<"r", "+", "C4", "r">>,
               <<"r", "*", "z", "r">>, <<"r", "+", "C3", "r">>,
               <<"r", "*", "z", "r">>, <<"r", "+", "C2", "r">>,
               <<"r", "*", "z", "r">>, <<"r", "+", "C1", "r">>,
               <<"r", "*", "z", "r">>,
               <<"hz", "*", "half", "z">>,
               <<"u", "*", "z", "r">>, <<"v", "*", "x", "y">>, <<"u", "-", "u", "v">>>>
             \o (IF HighWord(x) < \h3FD33333
                 THEN <<<<"hz", "-", "hz", "u">>, <<"result", "-", "one", "hz">>>>
                 ELSE <<<<"hz", "-", "hz", "qx">>, <<"a", "-", "one", "qx">>,
                        <<"hz", "-", "hz", "u">>, <<"result", "-", "a", "hz">>>>),
             1, [Registers EXCEPT !.x = x, !.y = y,
                     !.qx = IF HighWord(x) > \h3FE90000 THEN Num(9, -5)
                            ELSE Num(1048576 + (HighWord(x) % 1048576),
                                     (HighWord(x) \div 1048576) - 1045)]).result

\* __ieee754_rem_pio2 for |x| < 3 pi/4, x > 0 (x < 0 adds where this
\* subtracts): z = x - pio2_1; y[0] = z - pio2_1t; y[1] = (z - y[0]) - pio2_1t;
\* next to pi/2: z -= pio2_2; y[0] = z - pio2_2t; y[1] = (z - y[0]) - pio2_2t
RemPio2Near(x, op) ==
    Run(IF HighWord(x) # \h3FF921FB
        THEN <<<<"z", op, "x", "pio2_1">>, <<"y0", op, "z", "pio2_1t">>,
               <<"y1", "-", "z", "y0">>, <<"y1", op, "y1", "pio2_1t">>>>
        ELSE <<<<"z", op, "x", "pio2_1">>, <<"z", op, "z", "pio2_2">>,
               <<"y0", op, "z", "pio2_2t">>,
               <<"y1", "-", "z", "y0">>, <<"y1", op, "y1", "pio2_2t">>>>,
        1, [Registers EXCEPT !.x = x])

\* The rounds of __ieee754_rem_pio2 for medium x, env being the registers
\* after round k: the next round is needed when y[0] has lost more than 16
\* (then 49) bits against x; the first round is enough for n < 32 when x is
\* not next to n * pi/2.  A round is
\*   t = r; w = fn*pio2_k; r = t - w; w = fn*pio2_kt - ((t - r) - w);
\*   y[0] = r - w
RECURSIVE RemPio2Rounds(_, _, _, _)
RemPio2Rounds(ix, n, k, env) ==
    IF \/ k = 3
       \/ k = 1 /\ n < 32 /\ ix # npio2_hw[n]
       \/ (ix \div 1048576) - (HighWord(env.y0) \div 1048576)
              <= (IF k = 1 THEN 16 ELSE 49)
    THEN env
    ELSE CHOOSE after \in {RemPio2Rounds(ix, n, k + 1, next) :
             next \in {Run(<<<<"t", "=", "r", "r">>,
                             <<"w", "*", "fn", IF k = 1 THEN "pio2_2" ELSE "pio2_3">>,
                             <<"r", "-", "t", "w">>,
                             <<"a", "-", "t", "r">>, <<"a", "-", "a", "w">>,
                             <<"w", "*", "fn", IF k = 1 THEN "pio2_2t" ELSE "pio2_3t">>,
                             <<"w", "-", "w", "a">>,
                             <<"y0", "-", "r", "w">>>>, 1, env)}} : TRUE

\* __ieee754_rem_pio2 for 3 pi/4 <= |x| <= 2^19 * pi/2, t being |x|:
\*   n = (int)(t * invpio2 + half); fn = (double)n;
\*   r = t - fn*pio2_1; w = fn*pio2_1t; y[0] = r - w; the further rounds;
\*   y[1] = (r - y[0]) - w
\* read from the innermost set outwards: start holds t * invpio2 + half,
\* first the first round, last the last round, env the registers at the end
RemPio2Medium(x) ==
    CHOOSE p \in {
        CHOOSE q \in {[n |-> Floor(start.a), y0 |-> env.y0, y1 |-> env.y1] :
            env \in {Run(<<<<"y1", "-", "r", "y0">>, <<"y1", "-", "y1", "w">>>>, 1, last) :
                last \in {RemPio2Rounds(HighWord(x), Floor(start.a), 1, first) :
                    first \in {Run(<<<<"a", "*", "fn", "pio2_1">>, <<"r", "-", "t", "a">>,
                                     <<"w", "*", "fn", "pio2_1t">>,
                                     <<"y0", "-", "r", "w">>>>,
                                   1, [start EXCEPT !.fn = FromInt(Floor(start.a))])}}}} : TRUE
        : start \in {Run(<<<<"a", "*", "t", "invpio2">>, <<"a", "+", "a", "half">>>>,
                         1, [Registers EXCEPT !.t = FAbs(x)])}} : TRUE

\* __ieee754_rem_pio2: n and y0 + y1 with x = n * pi/2 + y0 + y1; for x < 0
\* the medium case negates what it found for |x|
RemPio2(x) ==
    IF HighWord(x) <= \h3FE921FB THEN [n |-> 0, y0 |-> x, y1 |-> FZero]
    ELSE IF HighWord(x) < \h4002D97C
    THEN CHOOSE p \in {[n |-> x.s, y0 |-> env.y0, y1 |-> env.y1] :
             env \in {RemPio2Near(x, IF x.s = 1 THEN "-" ELSE "+")}} : TRUE
    ELSE CHOOSE p \in {IF x.s = 1 THEN q
                       ELSE [n |-> -q.n, y0 |-> FNeg(q.y0), y1 |-> FNeg(q.y1)] :
             q \in {RemPio2Medium(x)}} : TRUE

\* Math.sin: __kernel_sin(x, 0, 0) for |x| <= pi/4 (the only case in which
\* the reduction has n = 0), else the kernel chosen by n & 3 applied to the
\* reduced argument: sin, cos, -sin, -cos
Sin(a) ==
    CHOOSE result \in {
        CHOOSE signed \in {IF p.n % 4 >= 2 THEN FNeg(k) ELSE k :
            k \in {IF p.n % 2 = 1 THEN KernelCos(p.y0, p.y1)
                   ELSE KernelSin(p.y0, p.y1, IF p.n = 0 THEN 0 ELSE 1)}} : TRUE
        : p \in {CHOOSE q \in {RemPio2(x) : x \in {a}} : TRUE}} : TRUE

FMin(a, b) == IF FLe(a, b) THEN a ELSE b
FMax(a, b) == IF FLe(b, a) THEN a ELSE b

One == FromInt(1)
Two == FromInt(2)
Three == FromInt(3)
Four == FromInt(4)
N255 == FromInt(255)

(***************************************************************************)
(* calculateMandelbrot: the escape-time loop.                              *)
(***************************************************************************)
\* x * x + y * y <= 4 && iteration < maxIterations
MandelCondLt(x, y, iteration, maxIterations) ==
    /\ FLt(FAdd(FMul(x, x), FMul(y, y)), Four)
    /\ iteration < maxIterations

MandelCondShort(x, y, iteration, maxIterations) ==
    /\ FLe(FAdd(FMul(x, x), FMul(y, y)), Four)
    /\ iteration + 1 < maxIterations

\* a loop that counts until it meets maxIterations
MandelCondNe(x, y, iteration, maxIterations) ==
    FLe(FAdd(FMul(x, x), FMul(y, y)), Four) /\ iteration # maxIterations

MandelCond(x, y, iteration, maxIterations) ==
    /\ FLe(FAdd(FMul(x, x), FMul(y, y)), Four)
    /\ iteration < maxIterations

\* xTemp = x * x - y * y + cx
MandelX(x, y, cx) == FAdd(FSub(FMul(x, x), FMul(y, y)), cx)

\* y = 2 * x * y + cy (with the x of before the step)
MandelY(x, y, cy) == FAdd(FMul(FMul(Two, x), y), cy)

\* The function as a whole: the loop run to its end from (x, y, iteration),
\* LoopChunk iterations at a time (which keeps the evaluation shallow).
LoopChunk == 16

\* at most n iterations of the loop from st = <<x, y, iteration>>
RECURSIVE MandelRun(_, _, _, _, _)
MandelRun(cx, cy, maxIterations, st, n) ==
    IF n = 0 \/ ~MandelCond(st[1], st[2], st[3], maxIterations)
    THEN st
    ELSE MandelRun(cx, cy, maxIterations,
                   <<MandelX(st[1], st[2], cx), MandelY(st[1], st[2], cy), st[3] + 1>>,
                   n - 1)

RECURSIVE MandelLoop(_, _, _, _, _, _)
MandelLoop(cx, cy, maxIterations, x, y, iteration) ==
    IF MandelCond(x, y, iteration, maxIterations)
    THEN LET st == MandelRun(cx, cy, maxIterations, <<x, y, iteration>>, LoopChunk)
         IN  MandelLoop(cx, cy, maxIterations, st[1], st[2], st[3])
    ELSE iteration

\* an iteration that starts at the point instead of the origin
calculateMandelbrotFromPoint(cx, cy, maxIterations) ==
    MandelLoop(cx, cy, maxIterations, cx, cy, 0)

calculateMandelbrot(cx, cy, maxIterations) ==
    MandelLoop(cx, cy, maxIterations, FZero, FZero, 0)

(***************************************************************************)
(* getColor                                                                *)
(***************************************************************************)
Schemes == {"grayscale", "rainbow", "fire"}

Black == [r |-> 0, g |-> 0, b |-> 0]

ClampNone(v) == v

\* Math.max(0, Math.min(255, v))
Clamp255(v) == Max2(0, Min2(255, v))

\* Math.floor(255 * Math.sin(Math.PI * t * 3 + phase)), before the clamp
RainbowChannel(t, phase) ==
    Floor(FMul(N255, Sin(FAdd(FMul(FMul(PI, t), Three), phase))))

\* (2 * Math.PI) / 3 and (4 * Math.PI) / 3
Phase(k) == FDiv(FMul(FromInt(k), PI), Three)

Rainbow(t) ==
    [r |-> Clamp255(Floor(FMul(N255, Sin(FMul(FMul(PI, t), Three))))),
     g |-> Clamp255(RainbowChannel(t, Phase(2))),
     b |-> Clamp255(RainbowChannel(t, Phase(4)))]

GrayscaleRound(t) ==
    LET gray == Round(FMul(N255, FSub(One, t)))
    IN  [r |-> gray, g |-> gray, b |-> gray]

Grayscale(t) ==
    LET gray == Floor(FMul(N255, FSub(One, t)))
    IN  [r |-> gray, g |-> gray, b |-> gray]

FireNoMin(t) ==
    LET ramp == FMul(t, Four)
        rgb  == IF FLe(ramp, One)
                THEN [r |-> Floor(FMul(N255, ramp)), g |-> 0, b |-> 0]
                ELSE IF FLe(ramp, Two)
                THEN [r |-> 255, g |-> Floor(FMul(N255, FSub(ramp, One))), b |-> 0]
                ELSE IF FLe(ramp, Three)
                THEN [r |-> 255, g |-> 255, b |-> Floor(FMul(N255, FSub(ramp, Two)))]
                ELSE [r |-> 255, g |-> 255, b |-> 255]
    IN  [r |-> Clamp255(rgb.r), g |-> Clamp255(rgb.g), b |-> Clamp255(rgb.b)]

Fire(t) ==
    LET ramp == FMul(t, Four)
        rgb  == IF FLe(ramp, One)
                THEN [r |-> Floor(FMul(N255, ramp)), g |-> 0, b |-> 0]
                ELSE IF FLe(ramp, Two)
                THEN [r |-> 255, g |-> Floor(FMul(N255, FSub(ramp, One))), b |-> 0]
                ELSE IF FLe(ramp, Three)
                THEN [r |-> 255, g |-> 255, b |-> Floor(FMul(N255, FSub(ramp, Two)))]
                ELSE [r |-> 255, g |-> 255,
                      b |-> Floor(FMul(N255, FMin(One, FSub(Four, ramp))))]
    IN  [r |-> Clamp255(rgb.r), g |-> Clamp255(rgb.g), b |-> Clamp255(rgb.b)]

getColorNoInSet(iteration, maxIterations, scheme) ==
    LET t == FDiv(FromInt(iteration), FromInt(maxIterations))
    IN  CASE scheme = "grayscale" -> Grayscale(t)
          [] scheme = "rainbow"   -> Rainbow(t)
          [] scheme = "fire"      -> Fire(t)
          [] OTHER                -> Black

getColor(iteration, maxIterations, scheme) ==
    IF iteration = maxIterations THEN Black
    ELSE LET t == FDiv(FromInt(iteration), FromInt(maxIterations))
         IN  CASE scheme = "grayscale" -> Grayscale(t)
               [] scheme = "rainbow"   -> Rainbow(t)
               [] scheme = "fire"      -> Fire(t)
               [] OTHER                -> Black

(***************************************************************************)
(* Coordinate mapper and viewport algebra.  Pixel coordinates given to     *)
(* pixelToComplex are numbers (the viewer passes canvas.width / 2); the    *)
(* canvas size and the corners of a selection are integers.                *)
(***************************************************************************)
\* a mapper that clamps the pixel to the canvas first
pixelToComplexClamped(pixelX, pixelY, width, height, viewport) ==
    LET scaleX == FDiv(FSub(viewport.xMax, viewport.xMin), FromInt(width))
        scaleY == FDiv(FSub(viewport.yMax, viewport.yMin), FromInt(height))
        cx == FMax(FZero, FMin(FromInt(width), pixelX))
        cy == FMax(FZero, FMin(FromInt(height), pixelY))
    IN  [real      |-> FAdd(viewport.xMin, FMul(cx, scaleX)),
         imaginary |-> FAdd(viewport.yMin, FMul(cy, scaleY))]

pixelToComplex(pixelX, pixelY, width, height, viewport) ==
    LET scaleX == FDiv(FSub(viewport.xMax, viewport.xMin), FromInt(width))
        scaleY == FDiv(FSub(viewport.yMax, viewport.yMin), FromInt(height))
    IN  [real      |-> FAdd(viewport.xMin, FMul(pixelX, scaleX)),
         imaginary |-> FAdd(viewport.yMin, FMul(pixelY, scaleY))]

\* an inverse that takes its horizontal scale from the height
complexToPixelSwapped(real, imaginary, width, height, viewport) ==
    LET scaleX == FDiv(FromInt(height), FSub(viewport.xMax, viewport.xMin))
        scaleY == FDiv(FromInt(height), FSub(viewport.yMax, viewport.yMin))
    IN  [x |-> Round(FMul(FSub(real, viewport.xMin), scaleX)),
         y |-> Round(FMul(FSub(imaginary, viewport.yMin), scaleY))]

\* an inverse that uses Math.floor
complexToPixelFloor(real, imaginary, width, height, viewport) ==
    LET scaleX == FDiv(FromInt(width), FSub(viewport.xMax, viewport.xMin))
        scaleY == FDiv(FromInt(height), FSub(viewport.yMax, viewport.yMin))
    IN  [x |-> Floor(FMul(FSub(real, viewport.xMin), scaleX)),
         y |-> Floor(FMul(FSub(imaginary, viewport.yMin), scaleY))]

complexToPixel(real, imaginary, width, height, viewport) ==
    LET scaleX == FDiv(FromInt(width), FSub(viewport.xMax, viewport.xMin))
        scaleY == FDiv(FromInt(height), FSub(viewport.yMax, viewport.yMin))
    IN  [x |-> Round(FMul(FSub(real, viewport.xMin), scaleX)),
         y |-> Round(FMul(FSub(imaginary, viewport.yMin), scaleY))]

\* a zoom that takes the corners in the order given
createZoomViewportNoSort(currentViewport, x1, y1, x2, y2, width, height) ==
    LET topLeft     == pixelToComplex(FromInt(x1), FromInt(y1),
                                      width, height, currentViewport)
        bottomRight == pixelToComplex(FromInt(x2), FromInt(y2),
                                      width, height, currentViewport)
    IN  [xMin |-> topLeft.real, xMax |-> bottomRight.real,
         yMin |-> topLeft.imaginary, yMax |-> bottomRight.imaginary]

\* a zoom that orders the horizontal corners only
createZoomViewportSortX(currentViewport, x1, y1, x2, y2, width, height) ==
    LET topLeft     == pixelToComplex(FromInt(Min2(x1, x2)), FromInt(y1),
                                      width, height, currentViewport)
        bottomRight == pixelToComplex(FromInt(Max2(x1, x2)), FromInt(y2),
                                      width, height, currentViewport)
    IN  [xMin |-> topLeft.real, xMax |-> bottomRight.real,
         yMin |-> topLeft.imaginary, yMax |-> bottomRight.imaginary]

createZoomViewport(currentViewport, x1, y1, x2, y2, width, height) ==
    LET left   == Min2(x1, x2)
        right  == Max2(x1, x2)
        top    == Min2(y1, y2)
        bottom == Max2(y1, y2)
        Result(topLeft, bottomRight) ==
            [xMin |-> topLeft.real, xMax |-> bottomRight.real,
             yMin |-> topLeft.imaginary, yMax |-> bottomRight.imaginary]
    IN  Result(pixelToComplex(FromInt(left), FromInt(top),
                              width, height, currentViewport),
               pixelToComplex(FromInt(right), FromInt(bottom),
                              width, height, currentViewport))

\* a pan with the opposite sign convention
panViewportAdd(currentViewport, dx, dy, width, height) ==
    LET deltaReal == FMul(dx, FDiv(FSub(currentViewport.xMax, currentViewport.xMin),
                                   FromInt(width)))
        deltaImaginary == FMul(dy, FDiv(FSub(currentViewport.yMax, currentViewport.yMin),
                                        FromInt(height)))
    IN  [xMin |-> FAdd(currentViewport.xMin, deltaReal),
         xMax |-> FAdd(currentViewport.xMax, deltaReal),
         yMin |-> FAdd(currentViewport.yMin, deltaImaginary),
         yMax |-> FAdd(currentViewport.yMax, deltaImaginary)]

panViewport(currentViewport, dx, dy, width, height) ==
    LET Result(deltaReal, deltaImaginary) ==
            [xMin |-> FSub(currentViewport.xMin, deltaReal),
             xMax |-> FSub(currentViewport.xMax, deltaReal),
             yMin |-> FSub(currentViewport.yMin, deltaImaginary),
             yMax |-> FSub(currentViewport.yMax, deltaImaginary)]
    IN  Result(FMul(dx, FDiv(FSub(currentViewport.xMax, currentViewport.xMin),
                             FromInt(width))),
               FMul(dy, FDiv(FSub(currentViewport.yMax, currentViewport.yMin),
                             FromInt(height))))

\* a zoom that keeps the pointed-at point under the pointed-at pixel
zoomAtPointAnchored(currentViewport, centerX, centerY, zoomFactor, width, height) ==
    LET center == pixelToComplex(centerX, centerY, width, height, currentViewport)
        newWidth  == FDiv(FSub(currentViewport.xMax, currentViewport.xMin), zoomFactor)
        newHeight == FDiv(FSub(currentViewport.yMax, currentViewport.yMin), zoomFactor)
        left == FMul(FDiv(centerX, FromInt(width)), newWidth)
        top  == FMul(FDiv(centerY, FromInt(height)), newHeight)
    IN  [xMin |-> FSub(center.real, left),
         xMax |-> FAdd(FSub(center.real, left), newWidth),
         yMin |-> FSub(center.imaginary, top),
         yMax |-> FAdd(FSub(center.imaginary, top), newHeight)]

\* a zoom that multiplies the size by the factor
zoomAtPointMul(currentViewport, centerX, centerY, zoomFactor, width, height) ==
    LET center == pixelToComplex(centerX, centerY, width, height, currentViewport)
        newWidth  == FMul(FSub(currentViewport.xMax, currentViewport.xMin), zoomFactor)
        newHeight == FMul(FSub(currentViewport.yMax, currentViewport.yMin), zoomFactor)
    IN  [xMin |-> FSub(center.real, FDiv(newWidth, Two)),
         xMax |-> FAdd(center.real, FDiv(newWidth, Two)),
         yMin |-> FSub(center.imaginary, FDiv(newHeight, Two)),
         yMax |-> FAdd(center.imaginary, FDiv(newHeight, Two))]

zoomAtPoint(currentViewport, centerX, centerY, zoomFactor, width, height) ==
    LET currentWidth  == FSub(currentViewport.xMax, currentViewport.xMin)
        currentHeight == FSub(currentViewport.yMax, currentViewport.yMin)
        Result(center, newWidth, newHeight) ==
            [xMin |-> FSub(center.real, FDiv(newWidth, Two)),
             xMax |-> FAdd(center.real, FDiv(newWidth, Two)),
             yMin |-> FSub(center.imaginary, FDiv(newHeight, Two)),
             yMax |-> FAdd(center.imaginary, FDiv(newHeight, Two))]
    IN  Result(pixelToComplex(centerX, centerY, width, height, currentViewport),
               FDiv(currentWidth, zoomFactor),
               FDiv(currentHeight, zoomFactor))

\* a default view that starts at -2
getDefaultViewportShifted ==
    [xMin |-> Num(-2, 0), xMax |-> One, yMin |-> Num(-3, -1), yMax |-> Num(3, -1)]

getDefaultViewport ==
    [xMin |-> Num(-5, -1), xMax |-> One, yMin |-> Num(-3, -1), yMax |-> Num(3, -1)]

(***************************************************************************)
(* State.  Each variable holds one activation of a function of the module: *)
(* its arguments, its locals and where it stands.                          *)
(***************************************************************************)
VARIABLES mb, col, conv, zoom, zat, pan, frame, body, viewer

vars == <<mb, col, conv, zoom, zat, pan, frame, body, viewer>>

Idle == [pc |-> "idle"]

\* the functions of the first half of the module, and the others
funcs == <<mb, col, conv, zoom>>
nav == <<zat, pan, frame, body, viewer>>

FuncsIdle == mb = Idle /\ col = Idle /\ conv = Idle /\ zoom = Idle
NavIdle == zat = Idle /\ pan = Idle /\ frame = Idle /\ body = Idle /\ viewer = Idle

(***************************************************************************)
(* calculateMandelbrot(cx, cy, maxIterations), one loop iteration a step.  *)
(***************************************************************************)
MaxCoord == 8
MaxIterEscape == 8

\* the points k/4 + (l/4) i
EscapeCoords == {Num(k, -2) : k \in -MaxCoord..MaxCoord}

EscapeInit ==
    /\ mb \in [cx : EscapeCoords, cy : EscapeCoords,
               maxIterations : -1..MaxIterEscape,
               x : {FZero}, y : {FZero}, iteration : {0}, pc : {"loop"}]
    /\ col = Idle /\ conv = Idle /\ zoom = Idle /\ NavIdle

MandelStep ==
    /\ mb.pc = "loop"
    /\ MandelCond(mb.x, mb.y, mb.iteration, mb.maxIterations)
    /\ mb' = [mb EXCEPT !.x = MandelX(mb.x, mb.y, mb.cx),
                        !.y = MandelY(mb.x, mb.y, mb.cy),
                        !.iteration = @ + 1]
    /\ UNCHANGED <<col, conv, zoom, nav>>

MandelReturn ==
    /\ mb.pc = "loop"
    /\ ~MandelCond(mb.x, mb.y, mb.iteration, mb.maxIterations)
    /\ mb' = [mb EXCEPT !.pc = "done"]
    /\ UNCHANGED <<col, conv, zoom, nav>>

EscapeNext == MandelStep \/ MandelReturn

SpecEscape == EscapeInit /\ [][EscapeNext]_vars

(***************************************************************************)
(* getColor(iteration, maxIterations, scheme)                              *)
(***************************************************************************)
MaxIterColor == 20
LargeIterColor == 256

NoColor == [r |-> -1, g |-> -1, b |-> -1]

ColorMaxIters == (0..MaxIterColor) \cup {LargeIterColor}

ColorInit ==
    /\ \E m \in ColorMaxIters, i \in 0..(MaxIterColor + LargeIterColor),
          sc \in Schemes \cup {"unknown"} :
          /\ i <= m
          /\ col = [iteration |-> i, maxIterations |-> m, scheme |-> sc,
                    result |-> NoColor, pc |-> "call"]
    /\ mb = Idle /\ conv = Idle /\ zoom = Idle /\ NavIdle

GetColor ==
    /\ col.pc = "call"
    /\ col' = [col EXCEPT !.result = getColor(col.iteration, col.maxIterations,
                                               col.scheme),
                          !.pc = "done"]
    /\ UNCHANGED <<mb, conv, zoom, nav>>

ColorNext == GetColor

SpecColor == ColorInit /\ [][ColorNext]_vars

\* the grayscale scheme alone, for every maxIterations up to MaxIterGray
MaxIterGray == 256

GrayInit ==
    /\ \E m \in 1..MaxIterGray, i \in 0..MaxIterGray :
          /\ i <= m
          /\ col = [iteration |-> i, maxIterations |-> m, scheme |-> "grayscale",
                    result |-> NoColor, pc |-> "call"]
    /\ mb = Idle /\ conv = Idle /\ zoom = Idle /\ NavIdle

SpecGrayscale == GrayInit /\ [][ColorNext]_vars

(***************************************************************************)
(* pixelToComplex and complexToPixel, one after the other: from a pixel    *)
(* to the plane and back, or from a point of the plane to a pixel and      *)
(* back.                                                                   *)
(***************************************************************************)
MaxWidth == 7
MaxHeight == 2
NarrowBits == 48
TooNarrowBits == 50
GridSteps == 8

WideViewport ==
    [xMin |-> Num(-7, -1), xMax |-> Num(15, -2), yMin |-> Num(-3, -1), yMax |-> Num(3, -1)]

\* a deep zoom: [1, 1 + 2^-k] x [-1 - 2^-k, -1]
NarrowViewport(k) ==
    [xMin |-> One, xMax |-> FAdd(One, Num(1, -k)),
     yMin |-> FSub(FNeg(One), Num(1, -k)), yMax |-> FNeg(One)]

Viewports ==
    {getDefaultViewport, WideViewport,
     NarrowViewport(NarrowBits), NarrowViewport(TooNarrowBits)}

NoPixel == [x |-> -99, y |-> -99]
NoPoint == [real |-> FZero, imaginary |-> FZero]

\* the points lo + j * (hi - lo) / steps, as the numbers nearest to them
GridPoint(lo, hi, j, steps) ==
    FAdd(lo, FMul(FromInt(j), FDiv(FSub(hi, lo), FromInt(steps))))

MapInit ==
    /\ \E vp \in Viewports, w \in 1..MaxWidth, h \in 1..MaxHeight :
          \/ \E px \in -1..(w + 1), py \in -1..(h + 1) :
                conv = [viewport |-> vp, width |-> w, height |-> h,
                        from |-> "pixel", pixel |-> [x |-> px, y |-> py],
                        point |-> NoPoint, pixel2 |-> NoPixel,
                        point2 |-> NoPoint, pc |-> "first"]
          \/ \E j \in -1..(GridSteps + 1), k \in {0, 1, 3} :
                conv = [viewport |-> vp, width |-> w, height |-> h,
                        from |-> "complex", pixel |-> NoPixel,
                        point |-> [real |-> GridPoint(vp.xMin, vp.xMax, j, GridSteps),
                                   imaginary |-> GridPoint(vp.yMin, vp.yMax, k, 4)],
                        pixel2 |-> NoPixel, point2 |-> NoPoint, pc |-> "first"]
    /\ mb = Idle /\ col = Idle /\ zoom = Idle /\ NavIdle

PixelToComplex ==
    /\ \/ conv.from = "pixel" /\ conv.pc = "first"
       \/ conv.from = "complex" /\ conv.pc = "second"
    /\ LET c == pixelToComplex(FromInt(conv.pixel.x), FromInt(conv.pixel.y),
                               conv.width, conv.height, conv.viewport)
       IN  conv' = IF conv.from = "pixel"
                   THEN [conv EXCEPT !.point = c, !.pc = "second"]
                   ELSE [conv EXCEPT !.point2 = c, !.pc = "done"]
    /\ UNCHANGED <<mb, col, zoom, nav>>

ComplexToPixel ==
    /\ \/ conv.from = "complex" /\ conv.pc = "first"
       \/ conv.from = "pixel" /\ conv.pc = "second"
    /\ LET p == complexToPixel(conv.point.real, conv.point.imaginary,
                               conv.width, conv.height, conv.viewport)
       IN  conv' = IF conv.from = "complex"
                   THEN [conv EXCEPT !.pixel = p, !.pc = "second"]
                   ELSE [conv EXCEPT !.pixel2 = p, !.pc = "done"]
    /\ UNCHANGED <<mb, col, zoom, nav>>

MapNext == PixelToComplex \/ ComplexToPixel

SpecMap == MapInit /\ [][MapNext]_vars

(***************************************************************************)
(* createZoomViewport(currentViewport, x1, y1, x2, y2, width, height)      *)
(***************************************************************************)
NoViewport == [xMin |-> FZero, xMax |-> FZero, yMin |-> FZero, yMax |-> FZero]

ZoomInit ==
    /\ \E vp \in Viewports, w \in 1..MaxWidth, h \in 1..MaxHeight :
          \E x1 \in -1..(w + 1), x2 \in 0..w, y1 \in 0..h, y2 \in 0..h :
             zoom = [currentViewport |-> vp, width |-> w, height |-> h,
                     x1 |-> x1, y1 |-> y1, x2 |-> x2, y2 |-> y2,
                     result |-> NoViewport, pc |-> "call"]
    /\ mb = Idle /\ col = Idle /\ conv = Idle /\ NavIdle

CreateZoomViewport ==
    /\ zoom.pc = "call"
    /\ zoom' = [zoom EXCEPT
                  !.result = createZoomViewport(zoom.currentViewport, zoom.x1, zoom.y1,
                                                zoom.x2, zoom.y2, zoom.width, zoom.height),
                  !.pc = "done"]
    /\ UNCHANGED <<mb, col, conv, nav>>

ZoomNext == CreateZoomViewport

SpecZoom == ZoomInit /\ [][ZoomNext]_vars

(***************************************************************************)
(* zoomAtPoint(currentViewport, centerX, centerY, zoomFactor, width,       *)
(* height).  The centre is a number: the viewer passes canvas.width / 2.   *)
(***************************************************************************)
Half == Num(1, -1)

\* the factors of the viewer (2 and 0.5), no zoom, and one that is no power of 2
ZoomFactors == {Two, Half, One, Three}

ZoomAtInit ==
    /\ \E vp \in Viewports, w \in 1..MaxWidth, h \in 1..MaxHeight :
          \E i \in 0..(2 * w), j \in {0, 1, 2}, zf \in ZoomFactors :
             zat = [currentViewport |-> vp, width |-> w, height |-> h,
                    centerX |-> Num(i, -1), centerY |-> Num(j * h, -1),
                    zoomFactor |-> zf, result |-> NoViewport, pc |-> "call"]
    /\ FuncsIdle /\ pan = Idle /\ frame = Idle /\ body = Idle /\ viewer = Idle

ZoomAtPoint ==
    /\ zat.pc = "call"
    /\ zat' = [zat EXCEPT
                 !.result = zoomAtPoint(zat.currentViewport, zat.centerX, zat.centerY,
                                        zat.zoomFactor, zat.width, zat.height),
                 !.pc = "done"]
    /\ UNCHANGED <<funcs, pan, frame, body, viewer>>

ZoomAtNext == ZoomAtPoint

SpecZoomAt == ZoomAtInit /\ [][ZoomAtNext]_vars

(***************************************************************************)
(* panViewport(currentViewport, dx, dy, width, height)                     *)
(***************************************************************************)
PanAmount == 50

\* a pixel, the viewer's pan amount, both ways, and no pan
PanDeltas == {-PanAmount, -1, 0, 1, PanAmount}

\* the viewports of the mapper and one of a single unit in the last place
PanViewports == Viewports \cup {NarrowViewport(TooNarrowBits + 2)}

PanInit ==
    /\ \E vp \in PanViewports, w \in 1..MaxWidth, h \in 1..MaxHeight :
          \E dx \in PanDeltas, dy \in PanDeltas :
             pan = [currentViewport |-> vp, width |-> w, height |-> h,
                    dx |-> dx, dy |-> dy, result |-> NoViewport, pc |-> "call"]
    /\ FuncsIdle /\ zat = Idle /\ frame = Idle /\ body = Idle /\ viewer = Idle

PanViewport ==
    /\ pan.pc = "call"
    /\ pan' = [pan EXCEPT
                 !.result = panViewport(pan.currentViewport, FromInt(pan.dx),
                                        FromInt(pan.dy), pan.width, pan.height),
                 !.pc = "done"]
    /\ UNCHANGED <<funcs, zat, frame, body, viewer>>

PanNext == PanViewport

SpecPan == PanInit /\ [][PanNext]_vars

(***************************************************************************)
(* renderMandelbrot(width, height, viewport, options), one pixel a step.   *)
(* data is the Uint8ClampedArray of the ImageData, all zero when created;  *)
(* the byte at offset k is data[k + 1].                                    *)
(***************************************************************************)
MaxFrameWidth == 3
MaxFrameHeight == 2
MaxIterFrame == 3

FrameViewports == {getDefaultViewport, WideViewport}

\* three bytes a pixel
PixelIndexPacked(px, py, width) == (py * width + px) * 3

\* index = (py * width + px) * 4
PixelIndex(px, py, width) == (py * width + px) * 4

\* a store into a Uint8ClampedArray
Uint8Clamped(v) == IF v < 0 THEN 0 ELSE IF v > 255 THEN 255 ELSE v

FrameInit ==
    /\ \E vp \in FrameViewports, w \in 1..MaxFrameWidth, h \in 1..MaxFrameHeight,
          m \in 0..MaxIterFrame, scheme \in Schemes :
          frame = [width |-> w, height |-> h, viewport |-> vp,
                   options |-> [maxIterations |-> m, colorScheme |-> scheme],
                   data |-> [k \in 1..(w * h * 4) |-> 0],
                   px |-> 0, py |-> 0, iteration |-> -1, pc |-> "loop"]
    /\ FuncsIdle /\ zat = Idle /\ pan = Idle /\ body = Idle /\ viewer = Idle

\* the body of the inner loop
RenderPixel ==
    /\ frame.pc = "loop"
    /\ frame.py < frame.height /\ frame.px < frame.width
    /\ \E c \in {pixelToComplex(FromInt(frame.px), FromInt(frame.py),
                                 frame.width, frame.height, frame.viewport)} :
       \E iteration \in {calculateMandelbrot(c.real, c.imaginary,
                                              frame.options.maxIterations)} :
       \E color \in {getColor(iteration, frame.options.maxIterations,
                              frame.options.colorScheme)} :
       \E index \in {PixelIndex(frame.px, frame.py, frame.width)} :
          frame' = [frame EXCEPT
                      !.data = [k \in 1..Len(frame.data) |->
                                  IF k = index + 1 THEN Uint8Clamped(color.r)
                                  ELSE IF k = index + 2 THEN Uint8Clamped(color.g)
                                  ELSE IF k = index + 3 THEN Uint8Clamped(color.b)
                                  ELSE IF k = index + 4 THEN 255
                                  ELSE frame.data[k]],
                      !.iteration = iteration,
                      !.px = @ + 1]
    /\ UNCHANGED <<funcs, zat, pan, body, viewer>>

\* the end of the inner loop: py++
RenderRowEnd ==
    /\ frame.pc = "loop"
    /\ frame.py < frame.height /\ ~(frame.px < frame.width)
    /\ frame' = [frame EXCEPT !.py = @ + 1, !.px = 0]
    /\ UNCHANGED <<funcs, zat, pan, body, viewer>>

RenderReturn ==
    /\ frame.pc = "loop"
    /\ ~(frame.py < frame.height)
    /\ frame' = [frame EXCEPT !.pc = "done"]
    /\ UNCHANGED <<funcs, zat, pan, body, viewer>>

FrameNext == RenderPixel \/ RenderRowEnd \/ RenderReturn

SpecFrame == FrameInit /\ [][FrameNext]_vars

(***************************************************************************)
(* The body of renderMandelbrot's inner loop for one pixel of a frame of   *)
(* TestFrameSize by TestFrameSize pixels: map, iterate, colour, store.     *)
(***************************************************************************)
TestFrameSize == 100
DefaultMaxIterations == 100

\* the corners, the centre and the quarters of the frame
BodyPixels == {0, TestFrameSize \div 4, TestFrameSize \div 2,
               (3 * TestFrameSize) \div 4, TestFrameSize - 1}

NoBytes == <<>>

BodyInit ==
    /\ \E px \in BodyPixels, py \in BodyPixels, scheme \in Schemes :
          body = [width |-> TestFrameSize, height |-> TestFrameSize,
                  viewport |-> getDefaultViewport,
                  options |-> [maxIterations |-> DefaultMaxIterations,
                               colorScheme |-> scheme],
                  px |-> px, py |-> py, point |-> NoPoint, iteration |-> -1,
                  color |-> NoColor, index |-> -1, bytes |-> NoBytes, pc |-> "map"]
    /\ FuncsIdle /\ zat = Idle /\ pan = Idle /\ frame = Idle /\ viewer = Idle

\* const { real, imaginary } = pixelToComplex(px, py, width, height, viewport)
BodyMap ==
    /\ body.pc = "map"
    /\ body' = [body EXCEPT
                  !.point = pixelToComplex(FromInt(body.px), FromInt(body.py),
                                           body.width, body.height, body.viewport),
                  !.pc = "iterate"]
    /\ UNCHANGED <<funcs, zat, pan, frame, viewer>>

\* const iteration = calculateMandelbrot(real, imaginary, options.maxIterations)
BodyIterate ==
    /\ body.pc = "iterate"
    /\ body' = [body EXCEPT
                  !.iteration = calculateMandelbrot(body.point.real, body.point.imaginary,
                                                    body.options.maxIterations),
                  !.pc = "colour"]
    /\ UNCHANGED <<funcs, zat, pan, frame, viewer>>

\* const color = getColor(iteration, options.maxIterations, options.colorScheme)
BodyColour ==
    /\ body.pc = "colour"
    /\ body' = [body EXCEPT
                  !.color = getColor(body.iteration, body.options.maxIterations,
                                     body.options.colorScheme),
                  !.pc = "store"]
    /\ UNCHANGED <<funcs, zat, pan, frame, viewer>>

\* the four bytes stored at index
BodyStore ==
    /\ body.pc = "store"
    /\ body' = [body EXCEPT
                  !.index = PixelIndex(body.px, body.py, body.width),
                  !.bytes = <<Uint8Clamped(body.color.r), Uint8Clamped(body.color.g),
                              Uint8Clamped(body.color.b), 255>>,
                  !.pc = "done"]
    /\ UNCHANGED <<funcs, zat, pan, frame, viewer>>

BodyNext == BodyMap \/ BodyIterate \/ BodyColour \/ BodyStore

SpecBody == BodyInit /\ [][BodyNext]_vars

(***************************************************************************)
(* MandelbrotViewer of main.ts: the constructor and the event listeners of *)
(* initializeControls and initializeCanvasEvents, one event a step.  The   *)
(* canvas element and the two input controls belong to the page, which     *)
(* fixes the canvas size and the values the slider can take; here they are *)
(* parameters.  shown is what render() last put on the canvas, last is the *)
(* event just handled and zoomCall the arguments of the call of            *)
(* createZoomViewport it made, if it made one.                             *)
(***************************************************************************)
CanvasWidth == 40
CanvasHeight == 30
MaxZoomClicks == 54
MaxEvents == 2
MaxMouseEvents == 3
MinSize == 10

SliderValues == {DefaultMaxIterations \div 2, DefaultMaxIterations}

\* where the mouse goes down, is double-clicked and is wheeled
PressPoints == {<<0, 0>>, <<CanvasWidth \div 2, CanvasHeight \div 2>>}

\* where the mouse is released: at, just below and just above the minimum
ReleasePoints == {0, MinSize - 1, MinSize} \X {0, MinSize - 1, MinSize}

WheelDeltas == {-1, 0, 1}

NoCall == [pc |-> "none"]

\* a selection counts when either side is long enough
SelectionSignificantEither(offsetX, offsetY, dragStartX, dragStartY) ==
    \/ Abs(offsetX - dragStartX) >= MinSize
    \/ Abs(offsetY - dragStartY) >= MinSize

SelectionSignificant(offsetX, offsetY, dragStartX, dragStartY) ==
    /\ Abs(offsetX - dragStartX) >= MinSize
    /\ Abs(offsetY - dragStartY) >= MinSize

updateSelectionRect(display, x1, y1, x2, y2) ==
    [display |-> display, left |-> Min2(x1, x2), top |-> Min2(y1, y2),
     width |-> Abs(x2 - x1), height |-> Abs(y2 - y1)]

\* canvas.width / 2 and canvas.height / 2
CanvasCentreX == FDiv(FromInt(CanvasWidth), Two)
CanvasCentreY == FDiv(FromInt(CanvasHeight), Two)

ZoomInClicked(viewport) ==
    zoomAtPoint(viewport, CanvasCentreX, CanvasCentreY, Two, CanvasWidth, CanvasHeight)

ZoomOutClicked(viewport) ==
    zoomAtPoint(viewport, CanvasCentreX, CanvasCentreY, Half, CanvasWidth, CanvasHeight)

\* the viewport after k clicks on the zoom-in button: the first half of the
\* clicks, then the rest
RECURSIVE ZoomInClicks(_, _)
ZoomInClicks(viewport, k) ==
    IF k = 0 THEN viewport
    ELSE IF k = 1 THEN ZoomInClicked(viewport)
    ELSE CHOOSE after \in {ZoomInClicks(half, k - (k \div 2)) :
                              half \in {ZoomInClicks(viewport, k \div 2)}} : TRUE

\* render(): the canvas shows the viewport under the options
Rendered(v) ==
    [v EXCEPT !.shown = [viewport |-> v.viewport, options |-> v.options]]

NoDrag == [pc |-> "none"]

\* The bookkeeping of one handled event.  drag is the history of the mouse,
\* kept from the events alone: the position of the last mousedown that no
\* mouseup or mouseleave has followed, NoDrag when there is none; last.drag
\* is that history as the event found it.
Handled(v, type, x, y, call) ==
    [v EXCEPT !.last = [type |-> type, x |-> x, y |-> y, drag |-> v.drag],
              !.drag = IF type = "mousedown" THEN [x |-> x, y |-> y, pc |-> "open"]
                       ELSE IF type \in {"mouseup", "mouseleave"} THEN NoDrag
                       ELSE v.drag,
              !.zoomCall = call,
              !.events = v.events + 1]

\* the viewer as constructed, or as constructed and then zoomed in by
\* MaxZoomClicks clicks on the zoom-in button
ViewerInit ==
    /\ \E k \in {0, MaxZoomClicks} :
          viewer = Rendered(
             [viewport |-> ZoomInClicks(getDefaultViewport, k),
              options |-> [maxIterations |-> DefaultMaxIterations,
                           colorScheme |-> "fire"],
              isDragging |-> FALSE, dragStartX |-> 0, dragStartY |-> 0,
              selectionRect |-> updateSelectionRect("none", 0, 0, 0, 0),
              shown |-> Idle,
              last |-> [type |-> IF k = 0 THEN "load" ELSE "zoom-in",
                        x |-> 0, y |-> 0, drag |-> NoDrag],
              drag |-> NoDrag,
              zoomCall |-> NoCall,
              events |-> 0])
    /\ FuncsIdle /\ zat = Idle /\ pan = Idle /\ frame = Idle /\ body = Idle

ViewerStep(v) ==
    /\ viewer' = v
    /\ UNCHANGED <<funcs, zat, pan, frame, body>>

ColorSchemeChange ==
    /\ viewer.events < MaxEvents
    /\ \E scheme \in Schemes :
          ViewerStep(Handled(Rendered([viewer EXCEPT !.options.colorScheme = scheme]),
                             "change", 0, 0, NoCall))

IterationsInput ==
    /\ viewer.events < MaxEvents
    /\ \E value \in SliderValues :
          ViewerStep(Handled(Rendered([viewer EXCEPT !.options.maxIterations = value]),
                             "input", 0, 0, NoCall))

ResetClick ==
    /\ viewer.events < MaxEvents
    /\ ViewerStep(Handled(Rendered([viewer EXCEPT
                                      !.viewport = getDefaultViewport,
                                      !.options.maxIterations = DefaultMaxIterations]),
                          "reset", 0, 0, NoCall))

\* this.viewport = viewport; this.render()
Navigated(viewport, type, x, y, call) ==
    ViewerStep(Handled(Rendered([viewer EXCEPT !.viewport = viewport]),
                       type, x, y, call))

ZoomInClick ==
    /\ viewer.events < MaxEvents
    /\ \E viewport \in {ZoomInClicked(viewer.viewport)} :
          Navigated(viewport, "zoom-in", 0, 0, NoCall)

ZoomOutClick ==
    /\ viewer.events < MaxEvents
    /\ \E viewport \in {ZoomOutClicked(viewer.viewport)} :
          Navigated(viewport, "zoom-out", 0, 0, NoCall)

PanUpClick ==
    /\ viewer.events < MaxEvents
    /\ \E dx \in {FZero}, dy \in {FromInt(-PanAmount)} :
       \E viewport \in {panViewport(viewer.viewport, dx, dy,
                                    CanvasWidth, CanvasHeight)} :
          Navigated(viewport, "pan-up", 0, 0, NoCall)

PanDownClick ==
    /\ viewer.events < MaxEvents
    /\ \E dx \in {FZero}, dy \in {FromInt(PanAmount)} :
       \E viewport \in {panViewport(viewer.viewport, dx, dy,
                                    CanvasWidth, CanvasHeight)} :
          Navigated(viewport, "pan-down", 0, 0, NoCall)

PanLeftClick ==
    /\ viewer.events < MaxEvents
    /\ \E dx \in {FromInt(-PanAmount)}, dy \in {FZero} :
       \E viewport \in {panViewport(viewer.viewport, dx, dy,
                                    CanvasWidth, CanvasHeight)} :
          Navigated(viewport, "pan-left", 0, 0, NoCall)

PanRightClick ==
    /\ viewer.events < MaxEvents
    /\ \E dx \in {FromInt(PanAmount)}, dy \in {FZero} :
       \E viewport \in {panViewport(viewer.viewport, dx, dy,
                                    CanvasWidth, CanvasHeight)} :
          Navigated(viewport, "pan-right", 0, 0, NoCall)

MouseDown ==
    /\ viewer.events < MaxMouseEvents
    /\ \E p \in PressPoints :
          ViewerStep(Handled([viewer EXCEPT
                                !.isDragging = TRUE,
                                !.dragStartX = p[1],
                                !.dragStartY = p[2],
                                !.selectionRect =
                                    updateSelectionRect("block", p[1], p[2], p[1], p[2])],
                             "mousedown", p[1], p[2], NoCall))

MouseMove ==
    /\ viewer.events < MaxMouseEvents
    /\ \E p \in PressPoints :
          ViewerStep(Handled(
             IF viewer.isDragging
             THEN [viewer EXCEPT
                     !.selectionRect =
                         updateSelectionRect(viewer.selectionRect.display,
                                             viewer.dragStartX, viewer.dragStartY,
                                             p[1], p[2])]
             ELSE viewer,
             "mousemove", p[1], p[2], NoCall))

MouseUp ==
    /\ viewer.events < MaxMouseEvents
    /\ \E p \in ReleasePoints :
          IF viewer.isDragging
          THEN IF SelectionSignificant(p[1], p[2],
                                       viewer.dragStartX, viewer.dragStartY)
               THEN \E viewport \in {createZoomViewport(
                                        viewer.viewport,
                                        viewer.dragStartX, viewer.dragStartY,
                                        p[1], p[2], CanvasWidth, CanvasHeight)} :
                       ViewerStep(Handled(Rendered(
                          [viewer EXCEPT !.isDragging = FALSE,
                                         !.selectionRect.display = "none",
                                         !.viewport = viewport]),
                          "mouseup", p[1], p[2],
                          [x1 |-> viewer.dragStartX, y1 |-> viewer.dragStartY,
                           x2 |-> p[1], y2 |-> p[2], pc |-> "called"]))
               ELSE ViewerStep(Handled(
                       [viewer EXCEPT !.isDragging = FALSE,
                                      !.selectionRect.display = "none"],
                       "mouseup", p[1], p[2], NoCall))
          ELSE ViewerStep(Handled(viewer, "mouseup", p[1], p[2], NoCall))

\* a mouseleave that hides the selection but leaves the drag going
MouseLeaveKeepsDragging ==
    /\ viewer.events < MaxMouseEvents
    /\ ViewerStep(Handled(
          IF viewer.isDragging
          THEN [viewer EXCEPT !.selectionRect.display = "none"]
          ELSE viewer,
          "mouseleave", 0, 0, NoCall))

MouseLeave ==
    /\ viewer.events < MaxMouseEvents
    /\ ViewerStep(Handled(
          IF viewer.isDragging
          THEN [viewer EXCEPT !.isDragging = FALSE,
                              !.selectionRect.display = "none"]
          ELSE viewer,
          "mouseleave", 0, 0, NoCall))

DblClick ==
    /\ viewer.events < MaxEvents
    /\ \E p \in PressPoints :
       \E offsetX \in {FromInt(p[1])}, offsetY \in {FromInt(p[2])} :
       \E viewport \in {zoomAtPoint(viewer.viewport, offsetX, offsetY, Two,
                                    CanvasWidth, CanvasHeight)} :
          Navigated(viewport, "dblclick", p[1], p[2], NoCall)

Wheel ==
    /\ viewer.events < MaxEvents
    /\ \E p \in PressPoints, deltaY \in WheelDeltas :
       \E offsetX \in {FromInt(p[1])}, offsetY \in {FromInt(p[2])} :
       \E zoomFactor \in {IF deltaY > 0 THEN Half ELSE Two} :
       \E viewport \in {zoomAtPoint(viewer.viewport, offsetX, offsetY, zoomFactor,
                                    CanvasWidth, CanvasHeight)} :
          Navigated(viewport, "wheel", p[1], p[2], NoCall)

ViewerNext ==
    \/ ColorSchemeChange \/ IterationsInput \/ ResetClick
    \/ ZoomInClick \/ ZoomOutClick
    \/ PanUpClick \/ PanDownClick \/ PanLeftClick \/ PanRightClick
    \/ MouseDown \/ MouseMove \/ MouseUp \/ MouseLeave
    \/ DblClick \/ Wheel

SpecViewer == ViewerInit /\ [][ViewerNext]_vars

(***************************************************************************)
(* Properties.  Formulas of a claim are read in the program's arithmetic:  *)
(* x * x + y * y and the like are the rounded results the code computes.   *)
(***************************************************************************)

\* z_0 .. z_n of the recurrence z_0 = (0,0), z_(k+1) = z_k^2 + c
OrbitNext(z, cx, cy) ==
    [x |-> FAdd(FSub(FMul(z.x, z.x), FMul(z.y, z.y)), cx),
     y |-> FAdd(FMul(FMul(Two, z.x), z.y), cy)]

RECURSIVE OrbitExt(_, _, _, _)
OrbitExt(zs, cx, cy, n) ==
    IF n = 0 THEN zs
    ELSE OrbitExt(Append(zs, OrbitNext(zs[Len(zs)], cx, cy)), cx, cy, n - 1)

Orbit(cx, cy, n) == OrbitExt(<<[x |-> FZero, y |-> FZero]>>, cx, cy, n)

Mag2(z) == FAdd(FMul(z.x, z.x), FMul(z.y, z.y))

IsEscapeTime(n, z, maxIterations) ==
    /\ n \in 0..maxIterations
    /\ \A k \in 0..(n - 1) : FLe(Mag2(z[k + 1]), Four)
    /\ n = maxIterations \/ FLt(Four, Mag2(z[n + 1]))

EscapeTimeOK ==
    IsEscapeTime(mb.iteration, Orbit(mb.cx, mb.cy, mb.iteration), mb.maxIterations)

\* C1: for every point and every maxIterations >= 0 the loop terminates, and
\* its result n is the escape time: n is in [0, maxIterations], every z_k
\* with k < n has x^2+y^2 <= 4, and n = maxIterations or z_n has x^2+y^2 > 4.
\* (Termination: the loop either steps or returns, and the counter, which
\* every step increases, never passes maxIterations.)
C1_EscapeTime ==
    mb.maxIterations >= 0 =>
        /\ mb.pc = "loop" => mb.iteration <= mb.maxIterations
        /\ mb.pc = "done" => EscapeTimeOK

\* a point that escapes after several iterations, before maxIterations
C1_Witness ==
    /\ mb.pc = "done"
    /\ mb.iteration >= 3
    /\ mb.iteration < mb.maxIterations

\* C2: calculateMandelbrot(0, 0, maxIterations) = maxIterations for all
\* maxIterations >= 1.
C2_OriginInSet ==
    (mb.pc = "done" /\ mb.cx = FZero /\ mb.cy = FZero /\ mb.maxIterations >= 1)
        => mb.iteration = mb.maxIterations

C2_Witness ==
    /\ mb.pc = "done"
    /\ mb.cx = FZero /\ mb.cy = FZero
    /\ mb.maxIterations = MaxIterEscape

\* C3: getColor(m, m, scheme) is black for every m and every scheme, known
\* or not.
C3_InSetIsBlack ==
    (col.pc = "done" /\ col.iteration = col.maxIterations) => col.result = Black

\* a scheme and a count whose formula would not give black
C3_Witness ==
    /\ col.pc = "done"
    /\ col.iteration = col.maxIterations
    /\ col.maxIterations = LargeIterColor
    /\ col.scheme = "fire"

\* C4: for the three schemes, maxIterations >= 1 and 0 <= iteration <=
\* maxIterations, every channel is an integer in [0, 255].
C4_ChannelsInRange ==
    (col.pc = "done" /\ col.scheme \in Schemes /\ col.maxIterations >= 1
        /\ col.iteration \in 0..col.maxIterations)
    => /\ col.result.r \in 0..255
       /\ col.result.g \in 0..255
       /\ col.result.b \in 0..255

\* a rainbow colour with a channel clamped at 0 and a channel above 0
C4_Witness ==
    /\ col.pc = "done"
    /\ col.scheme = "rainbow"
    /\ col.iteration < col.maxIterations
    /\ col.result.r > 0
    /\ col.result.g = 0

\* floor(255 * (1 - iteration/maxIterations))
GrayClaim(i, m) == Floor(FMul(N255, FSub(One, FDiv(FromInt(i), FromInt(m)))))

GrayCase == col.pc = "done" /\ col.scheme = "grayscale" /\ col.iteration < col.maxIterations

\* C5 as stated: in the grayscale scheme, for 0 <= iteration < maxIterations,
\* all channels are floor(255 * (1 - iteration/maxIterations)), iteration 0
\* gives white, and the value is strictly positive and non-increasing in
\* iteration.
C5_Original ==
    GrayCase =>
        /\ col.result.r = GrayClaim(col.iteration, col.maxIterations)
        /\ col.result.g = col.result.r /\ col.result.b = col.result.r
        /\ col.iteration = 0 => col.result.r = 255
        /\ col.result.r > 0
        /\ col.iteration >= 1 =>
              col.result.r <= getColor(col.iteration - 1, col.maxIterations, "grayscale").r

\* C5 amended: the same, the formula being evaluated in double arithmetic
\* (which gives the exact floor of 255 * (m - i) / m or one less), and the
\* value being non-negative, strictly positive when maxIterations <= 254.
C5_Grayscale ==
    GrayCase =>
        /\ col.result.r = GrayClaim(col.iteration, col.maxIterations)
        /\ col.result.g = col.result.r /\ col.result.b = col.result.r
        /\ col.iteration = 0 => col.result.r = 255
        /\ col.result.r >= 0
        /\ col.maxIterations <= 254 => col.result.r > 0
        /\ col.iteration >= 1 =>
              col.result.r <= getColor(col.iteration - 1, col.maxIterations, "grayscale").r
        /\ LET exact == (255 * (col.maxIterations - col.iteration)) \div col.maxIterations
           IN  col.result.r \in {exact - 1, exact}

\* an escaping iteration count rendered black
C5_Witness ==
    GrayCase /\ col.maxIterations = 255 /\ col.result = Black

\* The fire colour of C6: ramp = 4 * iteration / maxIterations, four
\* segments, each channel clamped to [0, 255].
FireClaim(i, m) ==
    LET ramp == FDiv(FromInt(4 * i), FromInt(m))
        c(v) == IF v < 0 THEN 0 ELSE IF v > 255 THEN 255 ELSE v
    IN  IF FLe(ramp, One)
        THEN [r |-> c(Floor(FMul(N255, ramp))), g |-> 0, b |-> 0]
        ELSE IF FLt(One, ramp) /\ FLe(ramp, Two)
        THEN [r |-> 255, g |-> c(Floor(FMul(N255, FSub(ramp, One)))), b |-> 0]
        ELSE IF FLt(Two, ramp) /\ FLe(ramp, Three)
        THEN [r |-> 255, g |-> 255, b |-> c(Floor(FMul(N255, FSub(ramp, Two))))]
        ELSE [r |-> 255, g |-> 255,
              b |-> c(Floor(FMul(N255, FMin(One, FSub(Four, ramp)))))]

\* C6: in the fire scheme, for 0 <= iteration < maxIterations, getColor
\* returns the four-segment ramp of FireClaim.
C6_FireRamp ==
    (col.pc = "done" /\ col.scheme = "fire" /\ col.iteration < col.maxIterations)
        => col.result = FireClaim(col.iteration, col.maxIterations)

\* a count in the last segment, where blue comes down again
C6_Witness ==
    /\ col.pc = "done" /\ col.scheme = "fire"
    /\ col.iteration < col.maxIterations
    /\ 4 * col.iteration > 3 * col.maxIterations
    /\ col.result.b < 255

(***************************************************************************)
(* The mapper.  Distances and tolerances are computed exactly (XAdd, XSub, *)
(* XMul), so that a bound is not itself subject to rounding.               *)
(***************************************************************************)
\* lo + p * ((hi - lo) / n), every operation rounded
AffineClaim(p, lo, hi, n) == FAdd(lo, FMul(p, FDiv(FSub(hi, lo), FromInt(n))))

\* |a - b| <= tol
Near(a, b, tol) == FLe(FAbs(XSub(a, b)), tol)

\* 2^-50 * (|lo| + |hi|): a few units in the last place of the bounds
RoundingSlack(lo, hi) == XMul(Num(1, -50), XAdd(FAbs(lo), FAbs(hi)))

\* a pixel is at least 2^-51 of the larger bound: (hi - lo) / n >= 2^-51 * max(|lo|, |hi|)
Resolvable(lo, hi, n) ==
    FLe(XMul(XMul(Num(1, -51), FMax(FAbs(lo), FAbs(hi))), FromInt(n)), XSub(hi, lo))

WellOrdered(vp) == FLt(vp.xMin, vp.xMax) /\ FLt(vp.yMin, vp.yMax)

FromPixel == conv.pc \in {"second", "done"} /\ conv.from = "pixel"

\* C7 as stated: pixelToComplex is the affine map, also outside the canvas;
\* pixel (0, 0) maps to (xMin, yMin) and pixel (width, height) to
\* (xMax, yMax).
C7_Original ==
    FromPixel =>
        LET vp == conv.viewport
        IN  /\ conv.point.real = AffineClaim(FromInt(conv.pixel.x), vp.xMin, vp.xMax, conv.width)
            /\ conv.point.imaginary =
                  AffineClaim(FromInt(conv.pixel.y), vp.yMin, vp.yMax, conv.height)
            /\ (conv.pixel.x = 0 /\ conv.pixel.y = 0)
                  => conv.point = [real |-> vp.xMin, imaginary |-> vp.yMin]
            /\ (conv.pixel.x = conv.width /\ conv.pixel.y = conv.height)
                  => conv.point = [real |-> vp.xMax, imaginary |-> vp.yMax]

\* C7 amended: pixelToComplex is the affine map evaluated in double
\* arithmetic, also outside the canvas; pixel (0, 0) maps to (xMin, yMin)
\* exactly and pixel (width, height) to (xMax, yMax) up to rounding: within
\* 2^-50 * (|xMin| + |xMax|) and 2^-50 * (|yMin| + |yMax|).
C7_AffineMap ==
    FromPixel =>
        LET vp == conv.viewport
        IN  /\ conv.point.real = AffineClaim(FromInt(conv.pixel.x), vp.xMin, vp.xMax, conv.width)
            /\ conv.point.imaginary =
                  AffineClaim(FromInt(conv.pixel.y), vp.yMin, vp.yMax, conv.height)
            /\ (conv.pixel.x = 0 /\ conv.pixel.y = 0)
                  => conv.point = [real |-> vp.xMin, imaginary |-> vp.yMin]
            /\ (conv.pixel.x = conv.width /\ conv.pixel.y = conv.height)
                  => /\ Near(conv.point.real, vp.xMax, RoundingSlack(vp.xMin, vp.xMax))
                     /\ Near(conv.point.imaginary, vp.yMax, RoundingSlack(vp.yMin, vp.yMax))

\* the far corner of the canvas, mapped next to but not onto (xMax, yMax)
C7_Witness ==
    /\ FromPixel
    /\ conv.pixel = [x |-> conv.width, y |-> conv.height]
    /\ conv.point.real # conv.viewport.xMax
    /\ Near(conv.point.real, conv.viewport.xMax,
            RoundingSlack(conv.viewport.xMin, conv.viewport.xMax))

RoundTripPixel ==
    /\ conv.pc = "done" /\ conv.from = "pixel"
    /\ WellOrdered(conv.viewport)
    /\ conv.pixel.x \in 0..conv.width
    /\ conv.pixel.y \in 0..conv.height

\* C8 as stated: for a well-ordered viewport and a pixel of the canvas,
\* complexToPixel(pixelToComplex(x, y)) returns (x, y).
C8_Original == RoundTripPixel => conv.pixel2 = conv.pixel

\* C8 amended: the same, for a viewport whose pixels are not below the
\* resolution of its bounds: (xMax - xMin) / width >= 2^-51 * max(|xMin|,
\* |xMax|) and (yMax - yMin) / height >= 2^-51 * max(|yMin|, |yMax|).
C8_RoundTripPixel ==
    (/\ RoundTripPixel
     /\ Resolvable(conv.viewport.xMin, conv.viewport.xMax, conv.width)
     /\ Resolvable(conv.viewport.yMin, conv.viewport.yMax, conv.height))
    => conv.pixel2 = conv.pixel

\* an interior pixel of a deep but resolvable zoom, off the corner
C8_Witness ==
    /\ RoundTripPixel
    /\ conv.viewport = NarrowViewport(NarrowBits)
    /\ conv.width = 3 /\ conv.pixel.x = 2 /\ conv.pixel.y = 1
    /\ conv.point.real # conv.viewport.xMin
    /\ conv.pixel2 = conv.pixel

RoundTripComplex ==
    /\ conv.pc = "done" /\ conv.from = "complex"
    /\ WellOrdered(conv.viewport)

\* 2 * n * |q - p| <= (hi - lo) + 2 * n * slack, that is
\* |q - p| <= (hi - lo) / (2 * n) + slack
HalfPixel(p, q, lo, hi, n, slack) ==
    FLe(XMul(FromInt(2 * n), FAbs(XSub(q, p))),
        XAdd(XSub(hi, lo), XMul(FromInt(2 * n), slack)))

\* Math.abs(q - p) <= (hi - lo) / (2 * n) as the program would evaluate it
HalfPixelRounded(p, q, lo, hi, n) ==
    FLe(FAbs(FSub(q, p)), FDiv(FSub(hi, lo), FromInt(2 * n)))

\* C9 as stated: for a well-ordered viewport and any point p,
\* pixelToComplex(complexToPixel(p)) differs from p by at most half a pixel
\* in each axis; the bound is taken both exactly and as the program would
\* evaluate it, and either reading satisfies the formula.
C9_Original ==
    RoundTripComplex =>
        LET vp == conv.viewport
        IN  /\ \/ HalfPixel(conv.point.real, conv.point2.real,
                            vp.xMin, vp.xMax, conv.width, FZero)
               \/ HalfPixelRounded(conv.point.real, conv.point2.real,
                                   vp.xMin, vp.xMax, conv.width)
            /\ \/ HalfPixel(conv.point.imaginary, conv.point2.imaginary,
                            vp.yMin, vp.yMax, conv.height, FZero)
               \/ HalfPixelRounded(conv.point.imaginary, conv.point2.imaginary,
                                   vp.yMin, vp.yMax, conv.height)

\* 2^-49 * (|p| + |lo| + |hi|)
RoundTripSlack(p, lo, hi) ==
    XMul(Num(1, -49), XAdd(FAbs(p), XAdd(FAbs(lo), FAbs(hi))))

\* C9 amended: the difference is at most half a pixel plus rounding:
\* |real' - real| <= (xMax - xMin) / (2 * width) + 2^-49 * (|real| + |xMin| +
\* |xMax|), and likewise for the imaginary axis.
C9_RoundTripComplex ==
    RoundTripComplex =>
        LET vp == conv.viewport
        IN  /\ HalfPixel(conv.point.real, conv.point2.real, vp.xMin, vp.xMax, conv.width,
                         RoundTripSlack(conv.point.real, vp.xMin, vp.xMax))
            /\ HalfPixel(conv.point.imaginary, conv.point2.imaginary,
                         vp.yMin, vp.yMax, conv.height,
                         RoundTripSlack(conv.point.imaginary, vp.yMin, vp.yMax))

\* a point that is not on the pixel grid, moved by the round trip
C9_Witness ==
    /\ RoundTripComplex
    /\ conv.viewport = getDefaultViewport
    /\ conv.width = 3
    /\ conv.point2.real # conv.point.real
    /\ conv.pixel.x \in 1..2

(***************************************************************************)
(* Zooming into a selection.                                               *)
(***************************************************************************)
ZoomCase ==
    /\ zoom.pc = "done"
    /\ WellOrdered(zoom.currentViewport)
    /\ zoom.x1 \in 0..zoom.width /\ zoom.x2 \in 0..zoom.width
    /\ zoom.y1 \in 0..zoom.height /\ zoom.y2 \in 0..zoom.height
    /\ zoom.x1 # zoom.x2 /\ zoom.y1 # zoom.y2

Reversed ==
    createZoomViewport(zoom.currentViewport, zoom.x2, zoom.y2, zoom.x1, zoom.y1,
                       zoom.width, zoom.height)

\* C10 as stated: for a well-ordered viewport and two corners of the canvas
\* with x1 # x2 and y1 # y2, the result lies within the current bounds, is
\* well-ordered, and is the same for the corners in reversed order.
C10_Original ==
    ZoomCase =>
        LET cur == zoom.currentViewport
            new == zoom.result
        IN  /\ FLe(cur.xMin, new.xMin) /\ FLe(new.xMax, cur.xMax)
            /\ FLe(cur.yMin, new.yMin) /\ FLe(new.yMax, cur.yMax)
            /\ WellOrdered(new)
            /\ new = Reversed

\* C10 amended: the result does not go below xMin and yMin, goes above xMax
\* and yMax by at most 2^-50 * (|xMin| + |xMax|) and 2^-50 * (|yMin| + |yMax|),
\* is the same for the corners in reversed order, has xMin <= xMax and
\* yMin <= yMax, and is well-ordered when the pixels of the current viewport
\* are not below the resolution of its bounds.
C10_ZoomViewport ==
    ZoomCase =>
        LET cur == zoom.currentViewport
            new == zoom.result
        IN  /\ FLe(cur.xMin, new.xMin) /\ FLe(cur.yMin, new.yMin)
            /\ FLe(new.xMax, XAdd(cur.xMax, RoundingSlack(cur.xMin, cur.xMax)))
            /\ FLe(new.yMax, XAdd(cur.yMax, RoundingSlack(cur.yMin, cur.yMax)))
            /\ FLe(new.xMin, new.xMax) /\ FLe(new.yMin, new.yMax)
            /\ (/\ Resolvable(cur.xMin, cur.xMax, zoom.width)
                /\ Resolvable(cur.yMin, cur.yMax, zoom.height)) => WellOrdered(new)
            /\ new = Reversed

\* a selection given bottom-right corner first, strictly inside the view
C10_Witness ==
    /\ ZoomCase
    /\ zoom.x1 > zoom.x2 /\ zoom.y1 > zoom.y2
    /\ zoom.x2 > 0 /\ zoom.x1 < zoom.width
    /\ WellOrdered(zoom.result)
    /\ FLt(zoom.currentViewport.xMin, zoom.result.xMin)
    /\ FLt(zoom.result.xMax, zoom.currentViewport.xMax)

ZoomDone == zoom.pc = "done" /\ WellOrdered(zoom.currentViewport)

\* C11 as stated: for any corner pair, also with x1 = x2 or y1 = y2, the
\* result of createZoomViewport has xMin < xMax and yMin < yMax.
C11_Original == ZoomDone => WellOrdered(zoom.result)

\* C11 amended: for any corner pair the result has xMin <= xMax and
\* yMin <= yMax; x1 = x2 gives xMin = xMax and y1 = y2 gives yMin = yMax;
\* x1 # x2 gives xMin < xMax, and y1 # y2 gives yMin < yMax, when the pixels
\* of the current viewport are not below the resolution of its bounds.
C11_ZoomNormalized ==
    ZoomDone =>
        LET cur == zoom.currentViewport
            new == zoom.result
        IN  /\ FLe(new.xMin, new.xMax) /\ FLe(new.yMin, new.yMax)
            /\ zoom.x1 = zoom.x2 => new.xMin = new.xMax
            /\ zoom.y1 = zoom.y2 => new.yMin = new.yMax
            /\ (zoom.x1 # zoom.x2 /\ Resolvable(cur.xMin, cur.xMax, zoom.width))
                  => FLt(new.xMin, new.xMax)
            /\ (zoom.y1 # zoom.y2 /\ Resolvable(cur.yMin, cur.yMax, zoom.height))
                  => FLt(new.yMin, new.yMax)

\* a selection of no width, its corners given bottom first
C11_Witness ==
    /\ ZoomDone
    /\ zoom.x1 = zoom.x2 /\ zoom.y1 > zoom.y2
    /\ zoom.result.xMin = zoom.result.xMax
    /\ FLt(zoom.result.yMin, zoom.result.yMax)

(***************************************************************************)
(* Zooming at a point.                                                      *)
(***************************************************************************)
ZoomAtDone == zat.pc = "done"

ZoomAtCenter ==
    pixelToComplex(zat.centerX, zat.centerY, zat.width, zat.height, zat.currentViewport)

\* (hi2 - lo2) * zoomFactor differs from hi - lo by at most slack * zoomFactor
SizeDivided(lo, hi, lo2, hi2, zoomFactor, slack) ==
    Near(XMul(XSub(hi2, lo2), zoomFactor), XSub(hi, lo), XMul(slack, zoomFactor))

\* hi2 - lo2 = (hi - lo) / zoomFactor as the program would evaluate it
SizeDividedRounded(lo, hi, lo2, hi2, zoomFactor) ==
    FSub(hi2, lo2) = FDiv(FSub(hi, lo), zoomFactor)

\* lo2 + hi2 differs from 2 * c by at most 2 * slack
Centred(lo2, hi2, c, slack) ==
    Near(XAdd(lo2, hi2), XMul(Two, c), XMul(Two, slack))

\* (lo2 + hi2) / 2 = c as the program would evaluate it
CentredRounded(lo2, hi2, c) == FDiv(FAdd(lo2, hi2), Two) = c

\* C12 as stated: zoomAtPoint returns a viewport whose width and height are
\* the current ones divided by zoomFactor and whose centre is
\* pixelToComplex(centerX, centerY); each equation is taken both exactly and
\* as the program would evaluate it, and either reading satisfies it.
C12_Original ==
    ZoomAtDone =>
        LET cur == zat.currentViewport
            new == zat.result
            c   == ZoomAtCenter
        IN  /\ \/ SizeDivided(cur.xMin, cur.xMax, new.xMin, new.xMax, zat.zoomFactor, FZero)
               \/ SizeDividedRounded(cur.xMin, cur.xMax, new.xMin, new.xMax, zat.zoomFactor)
            /\ \/ SizeDivided(cur.yMin, cur.yMax, new.yMin, new.yMax, zat.zoomFactor, FZero)
               \/ SizeDividedRounded(cur.yMin, cur.yMax, new.yMin, new.yMax, zat.zoomFactor)
            /\ Centred(new.xMin, new.xMax, c.real, FZero)
                  \/ CentredRounded(new.xMin, new.xMax, c.real)
            /\ Centred(new.yMin, new.yMax, c.imaginary, FZero)
                  \/ CentredRounded(new.yMin, new.yMax, c.imaginary)

\* C12 amended: the same up to rounding: the width and the centre of the
\* result are within 2^-50 * (|xMin'| + |xMax'|) of (xMax - xMin) / zoomFactor
\* and of pixelToComplex(centerX, centerY).real, and likewise for the height
\* and the imaginary part, xMin' .. yMax' being the bounds of the result.
C12_ZoomAtPoint ==
    ZoomAtDone =>
        LET cur == zat.currentViewport
            new == zat.result
            c   == ZoomAtCenter
        IN  /\ SizeDivided(cur.xMin, cur.xMax, new.xMin, new.xMax, zat.zoomFactor,
                           RoundingSlack(new.xMin, new.xMax))
            /\ SizeDivided(cur.yMin, cur.yMax, new.yMin, new.yMax, zat.zoomFactor,
                           RoundingSlack(new.yMin, new.yMax))
            /\ Centred(new.xMin, new.xMax, c.real, RoundingSlack(new.xMin, new.xMax))
            /\ Centred(new.yMin, new.yMax, c.imaginary, RoundingSlack(new.yMin, new.yMax))

\* a zoom by 2 off the centre of the canvas whose result is rounded
C12_Witness ==
    /\ ZoomAtDone
    /\ zat.zoomFactor = Two
    /\ zat.currentViewport = getDefaultViewport
    /\ zat.centerX # Num(zat.width, -1)
    /\ ~Centred(zat.result.xMin, zat.result.xMax, ZoomAtCenter.real, FZero)
    /\ FLt(zat.result.xMin, zat.result.xMax)

\* the point under the canvas-centre pixel (width / 2, height / 2) in the
\* returned viewport
ResultCentre ==
    pixelToComplex(Num(zat.width, -1), Num(zat.height, -1),
                   zat.width, zat.height, zat.result)

AtCanvasCentre ==
    zat.centerX = Num(zat.width, -1) /\ zat.centerY = Num(zat.height, -1)

\* hi2 - lo2 = hi - lo and hi2 - hi = lo2 - lo, exactly or as the program
\* would evaluate them
SameSizeTranslated(lo, hi, lo2, hi2) ==
    /\ XSub(hi2, lo2) = XSub(hi, lo) \/ FSub(hi2, lo2) = FSub(hi, lo)
    /\ XSub(hi2, hi) = XSub(lo2, lo) \/ FSub(hi2, hi) = FSub(lo2, lo)

\* C21 as stated: the point that was under pixel (centerX, centerY) lies
\* under the canvas-centre pixel of the returned viewport (its midpoint, or
\* the point pixelToComplex gives for (width / 2, height / 2)); with
\* zoomFactor = 1 the result equals the input only when (centerX, centerY) is
\* the canvas centre, and is otherwise a translated viewport of the same
\* size.
C21_Original ==
    ZoomAtDone =>
        LET cur == zat.currentViewport
            new == zat.result
            c   == ZoomAtCenter
        IN  /\ Centred(new.xMin, new.xMax, c.real, FZero) \/ ResultCentre.real = c.real
            /\ Centred(new.yMin, new.yMax, c.imaginary, FZero)
                  \/ ResultCentre.imaginary = c.imaginary
            /\ zat.zoomFactor = One =>
                  /\ new = cur => AtCanvasCentre
                  /\ ~AtCanvasCentre =>
                        /\ new # cur
                        /\ SameSizeTranslated(cur.xMin, cur.xMax, new.xMin, new.xMax)
                        /\ SameSizeTranslated(cur.yMin, cur.yMax, new.yMin, new.yMax)

\* the pointed-at pixel is further from the canvas centre than rounding can
\* hide: |center - n / 2| * (hi - lo) / n > 2^-49 * (|lo| + |hi|)
OffCentreResolvable(center, lo, hi, n) ==
    FLt(XMul(FromInt(2 * n), RoundingSlack(lo, hi)),
        XMul(FAbs(XSub(center, Num(n, -1))), XSub(hi, lo)))

\* hi2 - lo2 = hi - lo and hi2 - hi = lo2 - lo up to the slack
SameSizeTranslatedNear(lo, hi, lo2, hi2, slack) ==
    /\ Near(XSub(hi2, lo2), XSub(hi, lo), slack)
    /\ Near(XSub(hi2, hi), XSub(lo2, lo), slack)

\* C21, in the program's arithmetic: the point that was under pixel
\* (centerX, centerY) lies under the canvas-centre pixel of the returned
\* viewport up to 2^-50 * (|min| + |max|) of the returned bounds on each
\* axis; with zoomFactor = 1 the result has the size of the input and both
\* bounds of an axis moved by the same amount, up to that slack, and an
\* axis on which the pixel is resolvably off the canvas centre gets bounds
\* different from the input's.
C21_Recentres ==
    ZoomAtDone =>
        LET cur == zat.currentViewport
            new == zat.result
            c   == ZoomAtCenter
            sx  == RoundingSlack(new.xMin, new.xMax)
            sy  == RoundingSlack(new.yMin, new.yMax)
        IN  /\ Near(ResultCentre.real, c.real, sx)
            /\ Near(ResultCentre.imaginary, c.imaginary, sy)
            /\ zat.zoomFactor = One =>
                  /\ SameSizeTranslatedNear(cur.xMin, cur.xMax, new.xMin, new.xMax, sx)
                  /\ SameSizeTranslatedNear(cur.yMin, cur.yMax, new.yMin, new.yMax, sy)
                  /\ OffCentreResolvable(zat.centerX, cur.xMin, cur.xMax, zat.width)
                        => <<new.xMin, new.xMax>> # <<cur.xMin, cur.xMax>>
                  /\ OffCentreResolvable(zat.centerY, cur.yMin, cur.yMax, zat.height)
                        => <<new.yMin, new.yMax>> # <<cur.yMin, cur.yMax>>

\* a factor-1 zoom at a pixel resolvably off the canvas centre: the result is
\* a different viewport whose canvas-centre point is the pointed-at point
\* only up to rounding
C21_Witness ==
    /\ ZoomAtDone
    /\ zat.zoomFactor = One
    /\ zat.currentViewport = getDefaultViewport
    /\ OffCentreResolvable(zat.centerX, zat.currentViewport.xMin,
                           zat.currentViewport.xMax, zat.width)
    /\ zat.result # zat.currentViewport
    /\ ResultCentre.real # ZoomAtCenter.real

\* a factor-1 zoom at a pixel off the canvas centre that returns its input
C21_UnresolvedWitness ==
    /\ ZoomAtDone
    /\ zat.zoomFactor = One
    /\ ~AtCanvasCentre
    /\ zat.result = zat.currentViewport

(***************************************************************************)
(* Panning.                                                                 *)
(***************************************************************************)
PanCase == pan.pc = "done" /\ WellOrdered(pan.currentViewport)

\* d * ((hi - lo) / n), every operation rounded
DeltaClaim(d, lo, hi, n) == FMul(FromInt(d), FDiv(FSub(hi, lo), FromInt(n)))

\* both bounds of each axis less the delta of that axis
PanSubtracts ==
    LET cur == pan.currentViewport
        dr  == DeltaClaim(pan.dx, cur.xMin, cur.xMax, pan.width)
        di  == DeltaClaim(pan.dy, cur.yMin, cur.yMax, pan.height)
    IN  pan.result = [xMin |-> FSub(cur.xMin, dr), xMax |-> FSub(cur.xMax, dr),
                      yMin |-> FSub(cur.yMin, di), yMax |-> FSub(cur.yMax, di)]

\* C13 as stated: panViewport subtracts the same delta from both bounds of
\* each axis; dx > 0 strictly decreases xMin and xMax, dx < 0 strictly
\* increases them, dy > 0 strictly decreases yMin and yMax, and a pan along
\* one axis leaves the bounds of the other unchanged.
C13_Original ==
    PanCase =>
        LET cur == pan.currentViewport
            new == pan.result
        IN  /\ PanSubtracts
            /\ pan.dx > 0 => FLt(new.xMin, cur.xMin) /\ FLt(new.xMax, cur.xMax)
            /\ pan.dx < 0 => FLt(cur.xMin, new.xMin) /\ FLt(cur.xMax, new.xMax)
            /\ pan.dy > 0 => FLt(new.yMin, cur.yMin) /\ FLt(new.yMax, cur.yMax)
            /\ pan.dx = 0 => new.xMin = cur.xMin /\ new.xMax = cur.xMax
            /\ pan.dy = 0 => new.yMin = cur.yMin /\ new.yMax = cur.yMax

\* the pan is at least 2^-51 of the larger bound:
\* |d| * (hi - lo) / n >= 2^-51 * max(|lo|, |hi|)
PanResolvable(d, lo, hi, n) ==
    FLe(XMul(XMul(Num(1, -51), FMax(FAbs(lo), FAbs(hi))), FromInt(n)),
        XMul(FromInt(Abs(d)), XSub(hi, lo)))

\* C13 amended: the same in double arithmetic, where dx > 0 never increases
\* xMin and xMax and dx < 0 never decreases them (dy likewise), and the
\* change is strict when the pan is not below the resolution of the bounds:
\* |dx| * (xMax - xMin) / width >= 2^-51 * max(|xMin|, |xMax|), likewise
\* for dy.
C13_PanViewport ==
    PanCase =>
        LET cur == pan.currentViewport
            new == pan.result
            rx  == PanResolvable(pan.dx, cur.xMin, cur.xMax, pan.width)
            ry  == PanResolvable(pan.dy, cur.yMin, cur.yMax, pan.height)
        IN  /\ PanSubtracts
            /\ pan.dx > 0 => FLe(new.xMin, cur.xMin) /\ FLe(new.xMax, cur.xMax)
            /\ pan.dx < 0 => FLe(cur.xMin, new.xMin) /\ FLe(cur.xMax, new.xMax)
            /\ pan.dy > 0 => FLe(new.yMin, cur.yMin) /\ FLe(new.yMax, cur.yMax)
            /\ pan.dy < 0 => FLe(cur.yMin, new.yMin) /\ FLe(cur.yMax, new.yMax)
            /\ (pan.dx > 0 /\ rx) => FLt(new.xMin, cur.xMin) /\ FLt(new.xMax, cur.xMax)
            /\ (pan.dx < 0 /\ rx) => FLt(cur.xMin, new.xMin) /\ FLt(cur.xMax, new.xMax)
            /\ (pan.dy > 0 /\ ry) => FLt(new.yMin, cur.yMin) /\ FLt(new.yMax, cur.yMax)
            /\ (pan.dy < 0 /\ ry) => FLt(cur.yMin, new.yMin) /\ FLt(cur.yMax, new.yMax)
            /\ pan.dx = 0 => new.xMin = cur.xMin /\ new.xMax = cur.xMax
            /\ pan.dy = 0 => new.yMin = cur.yMin /\ new.yMax = cur.yMax

\* the viewer's pan to the right: the view moves left, the rows stay
C13_Witness ==
    /\ PanCase
    /\ pan.currentViewport = getDefaultViewport
    /\ pan.dx = PanAmount /\ pan.dy = 0
    /\ FLt(pan.result.xMax, pan.currentViewport.xMin)
    /\ pan.result.yMin = pan.currentViewport.yMin

(***************************************************************************)
(* Rendering.                                                               *)
(***************************************************************************)
\* the colour of pixel (px, py) of the frame being rendered
PixelColor(px, py) ==
    LET c == pixelToComplex(FromInt(px), FromInt(py),
                            frame.width, frame.height, frame.viewport)
    IN  getColor(calculateMandelbrot(c.real, c.imaginary, frame.options.maxIterations),
                 frame.options.maxIterations, frame.options.colorScheme)

\* C14: the buffer has width * height * 4 bytes; in the returned buffer the
\* four bytes at offset (py * width + px) * 4 are the R, G, B of
\* getColor(calculateMandelbrot(pixelToComplex(px, py))) and 255, for every
\* pixel of the canvas, and every 4th byte is 255.
C14_RenderBuffer ==
    frame.pc # "idle" =>
        /\ Len(frame.data) = frame.width * frame.height * 4
        /\ frame.pc = "done" =>
              /\ \A px \in 0..(frame.width - 1), py \in 0..(frame.height - 1) :
                    LET k == (py * frame.width + px) * 4
                        c == PixelColor(px, py)
                    IN  /\ frame.data[k + 1] = c.r
                        /\ frame.data[k + 2] = c.g
                        /\ frame.data[k + 3] = c.b
                        /\ frame.data[k + 4] = 255
              /\ \A k \in 1..Len(frame.data) : k % 4 = 0 => frame.data[k] = 255

\* a frame of several rows with a black pixel and a coloured one
C14_Witness ==
    /\ frame.pc = "done"
    /\ frame.width = 3 /\ frame.height = 2
    /\ frame.options.colorScheme = "fire"
    /\ \E px \in 0..2 : PixelColor(px, 1) = Black
    /\ \E px \in 0..2 : PixelColor(px, 1) # Black

\* the pixel (50, 50) of render(100, 100, getDefaultViewport(),
\* {maxIterations: 100, colorScheme: 'grayscale'}), stored
CentrePixel ==
    /\ body.pc = "done"
    /\ body.width = 100 /\ body.height = 100
    /\ body.px = 50 /\ body.py = 50
    /\ body.viewport = getDefaultViewport
    /\ body.options = [maxIterations |-> 100, colorScheme |-> "grayscale"]

\* C15 as stated: the centre pixel maps to (-0.75, 0), that point does not
\* escape within 100 iterations, and the pixel's RGB bytes are (0, 0, 0).
C15_Original ==
    CentrePixel =>
        /\ body.viewport = [xMin |-> Num(-5, -1), xMax |-> One,
                            yMin |-> Num(-3, -1), yMax |-> Num(3, -1)]
        /\ body.point = [real |-> Num(-3, -2), imaginary |-> FZero]
        /\ body.iteration = 100
        /\ SubSeq(body.bytes, 1, 3) = <<0, 0, 0>>

\* C15 amended: the centre pixel maps to (-0.75 + 2^-52, 0), that is
\* (-0.7499999999999998, 0), which is (-0.75, 0) up to rounding; that point
\* does not escape within 100 iterations, and the bytes are (0, 0, 0), 255.
C15_CentrePixel ==
    CentrePixel =>
        /\ body.viewport = [xMin |-> Num(-5, -1), xMax |-> One,
                            yMin |-> Num(-3, -1), yMax |-> Num(3, -1)]
        /\ body.point = [real |-> FAdd(Num(-3, -2), Num(1, -52)), imaginary |-> FZero]
        /\ Near(body.point.real, Num(-3, -2), RoundingSlack(body.viewport.xMin,
                                                           body.viewport.xMax))
        /\ body.iteration = 100
        /\ body.index = (50 * 100 + 50) * 4
        /\ body.bytes = <<0, 0, 0, 255>>

C15_Witness == CentrePixel /\ body.iteration = 100 /\ body.bytes = <<0, 0, 0, 255>>

\* C16: for every point and every maxIterations <= 0, calculateMandelbrot
\* performs no iteration and returns 0.
C16_NonPositiveMax ==
    (mb.pc # "idle" /\ mb.maxIterations <= 0) =>
        /\ mb.iteration = 0 /\ mb.x = FZero /\ mb.y = FZero
        /\ ~MandelCond(mb.x, mb.y, mb.iteration, mb.maxIterations)
        /\ calculateMandelbrot(mb.cx, mb.cy, mb.maxIterations) = 0

\* a negative maxIterations, for a point that would never escape
C16_Witness ==
    /\ mb.pc = "done"
    /\ mb.maxIterations < 0
    /\ mb.cx = FZero /\ mb.cy = FZero
    /\ mb.iteration = 0

\* a drag is in progress: a mousedown has been handled and no mouseup or
\* mouseleave since (the history of the events, not the listeners' flag)
DragInProgress == viewer.drag # NoDrag

\* a mouseup zooms to the selection exactly when a drag is in progress and
\* the release is at least 10 pixels from the drag start on both axes
MouseUpPolicy ==
    viewer'.last.type = "mouseup" =>
        LET offsetX == viewer'.last.x
            offsetY == viewer'.last.y
        IN  IF /\ DragInProgress
               /\ Abs(offsetX - viewer.drag.x) >= 10
               /\ Abs(offsetY - viewer.drag.y) >= 10
            THEN /\ viewer'.viewport =
                       createZoomViewport(viewer.viewport,
                                          viewer.drag.x, viewer.drag.y,
                                          offsetX, offsetY, CanvasWidth, CanvasHeight)
                 /\ viewer'.zoomCall =
                       [x1 |-> viewer.drag.x, y1 |-> viewer.drag.y,
                        x2 |-> offsetX, y2 |-> offsetY, pc |-> "called"]
            ELSE /\ viewer'.viewport = viewer.viewport
                 /\ viewer'.zoomCall = NoCall

\* mousemove and mouseleave leave the viewport alone
MoveLeavePolicy ==
    viewer'.last.type \in {"mousemove", "mouseleave"} =>
        /\ viewer'.viewport = viewer.viewport
        /\ viewer'.zoomCall = NoCall

\* every call of createZoomViewport is for a selection with an area
NoZeroAreaCall ==
    viewer.zoomCall # NoCall =>
        /\ viewer.last.type = "mouseup"
        /\ viewer.zoomCall.x1 # viewer.zoomCall.x2
        /\ viewer.zoomCall.y1 # viewer.zoomCall.y2

\* C17: a mouseup changes the viewport, to createZoomViewport of the drag
\* start and the release position, only if a drag is in progress (a
\* mousedown not yet ended by a mouseup or a mouseleave) and the release is
\* at least 10 pixels from the start both horizontally and vertically;
\* otherwise a mouseup leaves the viewport unchanged; mousemove and
\* mouseleave never change it; so createZoomViewport is never called by the
\* viewer with a selection of zero area.
C17_MinimumDrag ==
    /\ []NoZeroAreaCall
    /\ [][MouseUpPolicy /\ MoveLeavePolicy]_vars

\* a mouseup that came after the drag had been ended (by a mouseleave or an
\* earlier mouseup that did not zoom), released far enough from where the
\* mouse had gone down, has left the viewport as constructed
C17_Witness ==
    /\ viewer.last.type = "mouseup"
    /\ viewer.last.drag = NoDrag
    /\ viewer.events = 3
    /\ viewer.dragStartX = CanvasWidth \div 2
    /\ viewer.dragStartY = CanvasHeight \div 2
    /\ Abs(viewer.last.x - viewer.dragStartX) >= 10
    /\ Abs(viewer.last.y - viewer.dragStartY) >= 10
    /\ viewer.zoomCall = NoCall
    /\ viewer.viewport = getDefaultViewport
    /\ ~viewer.isDragging

\* a drag released exactly 10 pixels away on both axes has zoomed
C17_ZoomWitness ==
    /\ viewer.last.type = "mouseup"
    /\ viewer.last.drag # NoDrag
    /\ viewer.zoomCall # NoCall
    /\ Abs(viewer.zoomCall.x2 - viewer.zoomCall.x1) = 10
    /\ Abs(viewer.zoomCall.y2 - viewer.zoomCall.y1) = 10
    /\ viewer.viewport = viewer.shown.viewport
    /\ ~viewer.isDragging

\* C18 as stated: the fire scheme is monotone, for 0 <= i < j <
\* maxIterations every channel of getColor(j, maxIterations, 'fire') is at
\* least that channel of getColor(i, maxIterations, 'fire').  Here j is the
\* count of the call made and i ranges over the smaller counts.
C18_FireMonotone ==
    (col.pc = "done" /\ col.scheme = "fire" /\ col.iteration < col.maxIterations)
        => \A i \in 0..(col.iteration - 1) :
              LET below == getColor(i, col.maxIterations, "fire")
              IN  /\ col.result.r >= below.r
                  /\ col.result.g >= below.g
                  /\ col.result.b >= below.b

\* C19 as stated: starting from the default viewport, after any sequence of
\* the viewer's events (reset, the zoom and pan buttons, drag selection,
\* double-click, wheel) the viewport has xMin < xMax and yMin < yMax.
C19_ViewerWellOrdered ==
    /\ FLt(viewer.viewport.xMin, viewer.viewport.xMax)
    /\ FLt(viewer.viewport.yMin, viewer.viewport.yMax)

\* the pixels of the frame stored so far
StoredPixels ==
    {p \in (0..(frame.width - 1)) \X (0..(frame.height - 1)) :
        \/ p[2] < frame.py
        \/ p[2] = frame.py /\ p[1] < frame.px}

\* the R, G, B bytes of a pixel in the buffer
StoredColor(p) ==
    LET k == (p[2] * frame.width + p[1]) * 4
    IN  [r |-> frame.data[k + 1], g |-> frame.data[k + 2], b |-> frame.data[k + 3]]

\* the colour of iteration 0 under the frame's options
ZeroColor == getColor(0, frame.options.maxIterations, frame.options.colorScheme)

\* the count handed to getColor is at least 1 (-1: none handed yet)
NoZeroCount ==
    /\ frame.iteration # 0
    /\ frame.iteration # -1 =>
          /\ 1 <= frame.iteration
          /\ frame.iteration <= frame.options.maxIterations

\* C20 as stated: for maxIterations >= 1 calculateMandelbrot returns at
\* least 1, so renderMandelbrot never passes iteration 0 to getColor, and
\* the colour of iteration 0 never appears in a rendered frame.
C20_Original ==
    (frame.pc # "idle" /\ frame.options.maxIterations >= 1) =>
        /\ NoZeroCount
        /\ \A p \in StoredPixels : StoredColor(p) # ZeroColor

\* C20 amended: for maxIterations >= 1 calculateMandelbrot returns at least
\* 1 for every pixel's point, so renderMandelbrot never passes iteration 0 to
\* getColor; in the grayscale scheme the colour of iteration 0, white, never
\* appears in the frame.  (In the fire scheme the colour of iteration 0 is
\* black, the colour of the points in the set.)
C20_NoIterationZero ==
    (frame.pc # "idle" /\ frame.options.maxIterations >= 1) =>
        /\ NoZeroCount
        /\ frame.options.colorScheme = "grayscale" =>
              /\ ZeroColor = [r |-> 255, g |-> 255, b |-> 255]
              /\ \A p \in StoredPixels : StoredColor(p) # ZeroColor
        /\ frame.options.colorScheme = "fire" => ZeroColor = Black

\* a finished grayscale frame with a point that escaped at once, a point
\* that escaped later and a point that did not escape
C20_Witness ==
    /\ frame.pc = "done"
    /\ frame.options.colorScheme = "grayscale"
    /\ frame.options.maxIterations = 3
    /\ StoredPixels = (0..(frame.width - 1)) \X (0..(frame.height - 1))
    /\ \E p \in StoredPixels : StoredColor(p) = getColor(1, 3, "grayscale")
    /\ \E p \in StoredPixels : StoredColor(p) = getColor(2, 3, "grayscale")
    /\ \E p \in StoredPixels : StoredColor(p) = Black

====
